---- MODULE Spec2Model ----
(***************************************************************************)
(* The AI-response cache of the HAZOP backend                              *)
(* (backend/app/services/gemini_cache.py, backend/app/models/              *)
(* gemini_cache.py) and the suggest_* requests of                          *)
(* backend/app/services/gemini_service.py that sit on top of it.           *)
(*                                                                         *)
(* Time is counted in days.  JSON text is a sequence of tokens; sha256 and *)
(* md5 are taken to be collision free and are modelled by tagging the text *)
(* they digest.                                                            *)
(***************************************************************************)
EXTENDS Integers, Sequences, FiniteSets, TLC

\* ------------------------------------------------------------------ bounds
MaxTime == 8
MaxOps == 3
MaxConcOps == 4
MaxRaceOps == 3
NumSessions == 2

\* GeminiCacheService.cache_ttl, in days
cache_ttl == 7

\* ------------------------------------------------------- Python/JSON values
\* A value is a record [ty, s, items]: a string, null, a boolean, a list
\* (items: the elements) or a dict (items: <<key, value>> pairs in insertion
\* order, keys distinct).
Str(x) == [ty |-> "str", s |-> x, items |-> <<>>]
PyNone == [ty |-> "null", s |-> "null", items |-> <<>>]
PyTrue == [ty |-> "bool", s |-> "true", items |-> <<>>]
List(xs) == [ty |-> "list", s |-> "", items |-> xs]
Dict(kvs) == [ty |-> "dict", s |-> "", items |-> kvs]

\* Python truthiness of a value (None, "", [] and {} are falsy).
Truthy(v) ==
    CASE v.ty = "null" -> FALSE
      [] v.ty = "str" -> v.s # ""
      [] v.ty = "bool" -> v.s = "true"
      [] OTHER -> v.items # <<>>

\* `x or {}`
OrEmptyDict(x) == IF Truthy(x) THEN x ELSE Dict(<<>>)

\* The dictionary keys the program uses, in the order Python sorts them.
KeyOrder ==
    << "cached", "cause_text", "causes", "consequence_text", "consequences",
       "context", "deviation_id", "deviation_text", "fluid_type",
       "operating_conditions", "previous_incidents", "process_description",
       "safeguards", "text", "type" >>

KeyRank(k) == CHOOSE i \in 1..Len(KeyOrder) : KeyOrder[i] = k

RECURSIVE InsertSorted(_, _)
InsertSorted(kv, sorted) ==
    IF sorted = <<>> THEN <<kv>>
    ELSE IF KeyRank(kv[1]) <= KeyRank(Head(sorted)[1])
         THEN <<kv>> \o sorted
         ELSE <<Head(sorted)>> \o InsertSorted(kv, Tail(sorted))

RECURSIVE SortItems(_)
SortItems(kvs) ==
    IF kvs = <<>> THEN <<>> ELSE InsertSorted(Head(kvs), SortItems(Tail(kvs)))

\* Tokens of JSON text.
TokP(x) == [k |-> "p", v |-> x]
TokS(x) == [k |-> "s", v |-> x]
TokW(x) == [k |-> "w", v |-> x]

\* json.dumps(v, sort_keys=sort_keys)
RECURSIVE json_dumps(_, _)
RECURSIVE DumpElems(_, _)
RECURSIVE DumpPairs(_, _)
DumpElems(xs, sort_keys) ==
    IF xs = <<>> THEN <<>>
    ELSE json_dumps(Head(xs), sort_keys)
         \o (IF Len(xs) > 1 THEN <<TokP(",")>> ELSE <<>>)
         \o DumpElems(Tail(xs), sort_keys)
DumpPairs(kvs, sort_keys) ==
    IF kvs = <<>> THEN <<>>
    ELSE <<TokS(Head(kvs)[1]), TokP(":")>> \o json_dumps(Head(kvs)[2], sort_keys)
         \o (IF Len(kvs) > 1 THEN <<TokP(",")>> ELSE <<>>)
         \o DumpPairs(Tail(kvs), sort_keys)
json_dumps(v, sort_keys) ==
    CASE v.ty = "str" -> <<TokS(v.s)>>
      [] v.ty = "null" -> <<TokW("null")>>
      [] v.ty = "bool" -> <<TokW(v.s)>>
      [] v.ty = "list" -> <<TokP("[")>> \o DumpElems(v.items, sort_keys) \o <<TokP("]")>>
      [] v.ty = "dict" ->
            <<TokP("{")>>
            \o DumpPairs(IF sort_keys THEN SortItems(v.items) ELSE v.items, sort_keys)
            \o <<TokP("}")>>

\* json.loads(text): a recursive-descent parser.  ParseValue(ts, i) reads
\* one value starting at token i and yields [ok, val, next]; ok = FALSE
\* stands for json.JSONDecodeError.
ParseFail == [ok |-> FALSE, val |-> PyNone, next |-> 0]
Tok(ts, i) == IF i <= Len(ts) THEN ts[i] ELSE TokP("<eof>")

RECURSIVE ParseValue(_, _)
RECURSIVE ParseElems(_, _, _)
RECURSIVE ParsePairs(_, _, _)
ParseElems(ts, i, acc) ==
    LET r == ParseValue(ts, i) IN
    IF ~r.ok THEN ParseFail
    ELSE IF Tok(ts, r.next) = TokP(",") THEN ParseElems(ts, r.next + 1, Append(acc, r.val))
    ELSE IF Tok(ts, r.next) = TokP("]")
         THEN [ok |-> TRUE, val |-> List(Append(acc, r.val)), next |-> r.next + 1]
    ELSE ParseFail
ParsePairs(ts, i, acc) ==
    IF Tok(ts, i).k # "s" \/ Tok(ts, i + 1) # TokP(":") THEN ParseFail
    ELSE LET r == ParseValue(ts, i + 2)
             kv == <<Tok(ts, i).v, r.val>> IN
         IF ~r.ok THEN ParseFail
         ELSE IF Tok(ts, r.next) = TokP(",") THEN ParsePairs(ts, r.next + 1, Append(acc, kv))
         ELSE IF Tok(ts, r.next) = TokP("}")
              THEN [ok |-> TRUE, val |-> Dict(Append(acc, kv)), next |-> r.next + 1]
         ELSE ParseFail
ParseValue(ts, i) ==
    LET t == Tok(ts, i) IN
    CASE t.k = "s" -> [ok |-> TRUE, val |-> Str(t.v), next |-> i + 1]
      [] t = TokW("null") -> [ok |-> TRUE, val |-> PyNone, next |-> i + 1]
      [] t = TokW("true") -> [ok |-> TRUE, val |-> PyTrue, next |-> i + 1]
      [] t = TokP("[") ->
            IF Tok(ts, i + 1) = TokP("]")
            THEN [ok |-> TRUE, val |-> List(<<>>), next |-> i + 2]
            ELSE ParseElems(ts, i + 1, <<>>)
      [] t = TokP("{") ->
            IF Tok(ts, i + 1) = TokP("}")
            THEN [ok |-> TRUE, val |-> Dict(<<>>), next |-> i + 2]
            ELSE ParsePairs(ts, i + 1, <<>>)
      [] OTHER -> ParseFail

json_loads(ts) ==
    LET r == ParseValue(ts, 1) IN
    IF r.ok /\ r.next = Len(ts) + 1 THEN [ok |-> TRUE, val |-> r.val]
    ELSE [ok |-> FALSE, val |-> PyNone]

\* hashlib.sha256(...).hexdigest() and hashlib.md5(...).hexdigest()
sha256(text) == [alg |-> "sha256", of |-> text]
md5(text) == [alg |-> "md5", of |-> text]

\* GeminiCacheService._generate_cache_key
cache_data(deviation_id, context, suggestion_type) ==
    Dict(<< <<"deviation_id", Str(deviation_id)>>,
            <<"context", OrEmptyDict(context)>>,
            <<"type", Str(suggestion_type)>> >>)

\* A key that leaves the suggestion type out of the hashed data.
generate_cache_key_without_type(deviation_id, context, suggestion_type) ==
    sha256(json_dumps(Dict(<< <<"deviation_id", Str(deviation_id)>>,
                              <<"context", OrEmptyDict(context)>> >>), TRUE))

\* A key serialised in insertion order instead of sorted key order.
generate_cache_key_unsorted(deviation_id, context, suggestion_type) ==
    sha256(json_dumps(cache_data(deviation_id, context, suggestion_type), FALSE))

generate_cache_key(deviation_id, context, suggestion_type) ==
    sha256(json_dumps(cache_data(deviation_id, context, suggestion_type), TRUE))

\* GeminiCacheService._hash_context
hash_context(context) == md5(json_dumps(OrEmptyDict(context), TRUE))

\* ------------------------------------------------------------ input values
Deviations == {"d1", "d2"}

CtxGasPump == Dict(<< <<"fluid_type", Str("gas")>>, <<"process_description", Str("pump")>> >>)
CtxPumpGas == Dict(<< <<"process_description", Str("pump")>>, <<"fluid_type", Str("gas")>> >>)
CtxOilPump == Dict(<< <<"fluid_type", Str("oil")>>, <<"process_description", Str("pump")>> >>)
CtxGas == Dict(<< <<"fluid_type", Str("gas")>> >>)

Suggestion(text) == Dict(<< <<"text", Str(text)>> >>)
V1 == List(<<Suggestion("leak")>>)
V2 == List(<<Suggestion("blockage"), Suggestion("leak")>>)
Payloads == {V1, V2}
\* A JSON list whose items are strings, not objects.
Names == List(<<Str("leak")>>)

\* Triples that differ from one another in one component only.
KeyTriples ==
    { <<"d1", CtxGasPump, "causes">>,
      <<"d2", CtxGasPump, "causes">>,
      <<"d1", CtxGasPump, "consequences">>,
      <<"d1", CtxOilPump, "causes">>,
      <<"d1", CtxGas, "causes">>,
      <<"d1", PyNone, "causes">>,
      <<"d1", Dict(<<>>), "causes">> }

\* The (deviation_id, context, suggestion_type) triples the cache is called with.
Triples ==
    { <<"d1", CtxGasPump, "causes">>,
      <<"d1", CtxPumpGas, "causes">>,
      <<"d2", CtxGasPump, "causes">> }

\* ------------------------------------------------------------------- state
VARIABLES
    now,          \* datetime.utcnow(), in days
    deviations,   \* ids of the rows of table deviations
    rows,         \* the committed rows of table gemini_cache
    nextId,       \* the next primary key uuid4 hands out
    sess,         \* per database session: the call in progress
    sweepRet,     \* what the last cleanup_expired returned (-1: none yet)
    ops,          \* number of operations started
    lastPut,      \* history: per triple, the last cache_response that returned True
    lastTry,      \* history: per triple, the last cache_response that reached commit
    sched,        \* the application's startup and its background cleanup task
    stats,        \* the statistics call under way, or what the last one returned
    hazop         \* the studies and nodes stored, and the request of each user of the
                  \* studies API

vars == <<now, deviations, rows, nextId, sess, sweepRet, ops, lastPut, lastTry, sched, stats, hazop>>

Sessions == 1..NumSessions

\* A row of gemini_cache (models/gemini_cache.py).
NoKey == sha256(<<>>)
NoRow ==
    [id |-> 0, cache_key |-> NoKey, deviation_id |-> "", suggestion_type |-> "",
     context_hash |-> md5(<<>>), response_data |-> <<>>, created_at |-> 0,
     expires_at |-> 0, access_count |-> 0, last_accessed |-> 0]

NoApi == [kind |-> "none", text |-> <<>>]
NoReq == [context |-> PyNone, cause_text |-> PyNone, consequence_text |-> PyNone]

IdleSession ==
    [op |-> "none", pc |-> "idle", d |-> "", c |-> PyNone, t |-> "", v |-> PyNone,
     cs |-> FALSE, key |-> TRUE, broken |-> FALSE, req |-> NoReq,
     dirty |-> "none", obj |-> NoRow, loaded |-> <<>>, tq |-> -1, tp |-> -1,
     ret |-> PyNone, putret |-> "none", up |-> NoApi, result |-> PyNone,
     raised |-> FALSE, gfail |-> FALSE, pfail |-> FALSE]

\* The application before startup_event: no cleanup task yet.  `task` is where
\* _cleanup_task stands, `delay` the hours of the sleep it is in, `last` how
\* its last attempt went.
NotStarted == [app |-> "starting", task |-> "none", delay |-> 0, last |-> "none"]

\* No statistics were asked for yet.
NoStats == [kind |-> "none"]

\* The HAZOP data: two organisations, each with one study, one node under it
\* and one deviation (d1, d2) under the node; a user of each organisation,
\* named by the organisation.
Orgs == {"o1", "o2"}
StudyIds == {"s1", "s2"}
NodeIds == {"n1", "n2"}
NodeNames == {"P-101", "P-102"}

\* The ids that uuid.uuid4 gives to the rows inserted, in the order of the
\* inserts; at most MaxNew rows are inserted into a table.
MaxNew == 1
NewStudyIds == <<"s3", "s4", "s5">>
NewNodeIds == <<"n3", "n4", "n5">>
NewDeviationIds == <<"d3", "d4", "d5">>

\* A user with no request made yet.  pc is where the handler stands
\* ("flush": before the db.flush of the new node of duplicate_node, "copy":
\* before its query for the deviations to copy, "commit": before db.commit,
\* "refresh": before db.refresh), copies the deviations that duplicate_node
\* has flushed and not yet committed, with obj the node they are under, id and
\* name what the request names, loaded what its query loaded (the name of the
\* node for update_node, the study of the node for duplicate_node), incl the
\* flag include_deviations, obj the row that is refreshed, status and shows
\* the response: the status and the ids of the rows whose data it carries.
NoCall ==
    [op |-> "none", pc |-> "idle", id |-> "", name |-> "", loaded |-> "",
     incl |-> FALSE, obj |-> "", copies |-> {}, status |-> 0, shows |-> {}]

\* The tables hazop_studies and hazop_nodes by id, Deviation.node_id of the
\* stored deviations, the number of rows inserted so far into each table, and
\* the request of each user.
InitHazop ==
    [studies |-> [st \in StudyIds |->
                    [organization_id |-> IF st = "s1" THEN "o1" ELSE "o2"]],
     nodes |-> [n \in NodeIds |->
                    [study_id |-> IF n = "n1" THEN "s1" ELSE "s2",
                     node_name |-> "P-101"]],
     node_id |-> [d \in {"d1", "d2"} |-> IF d = "d1" THEN "n1" ELSE "n2"],
     made |-> [studies |-> 0, nodes |-> 0, deviations |-> 0],
     calls |-> [u \in Orgs |-> NoCall]]

\* The set of key/value pairs of a context (None counts as the empty map).
CtxSet(c) == LET m == OrEmptyDict(c) IN {m.items[i] : i \in 1..Len(m.items)}
TripleOf(d, c, t) == [d |-> d, cs |-> CtxSet(c), t |-> t]

Init ==
    /\ now = 0
    /\ deviations = Deviations
    /\ rows = {}
    /\ nextId = 1
    /\ sess = [s \in Sessions |-> IdleSession]
    /\ sweepRet = -1
    /\ ops = 0
    /\ lastPut = {}
    /\ lastTry = {}
    /\ sched = NotStarted
    /\ stats = NoStats
    /\ hazop = InitHazop

\* --------------------------------------------------------------- the table
\* GeminiCache.is_expired
is_expired(r, t) == t > r.expires_at

\* Access bookkeeping that stamps the time but does not count the hit.
update_access_stats_without_count(r, t) == [r EXCEPT !.last_accessed = t]

\* GeminiCache.update_access_stats
update_access_stats(r, t) ==
    [r EXCEPT !.access_count = @ + 1, !.last_accessed = t]

\* A lookup filter that still accepts a row at the instant it expires.
LiveFilterInclusive(r, key, t) == r.cache_key = key /\ r.expires_at >= t

\* The filter of get_cached_response: cache_key == key, expires_at > utcnow().
LiveFilter(r, key, t) == r.cache_key = key /\ r.expires_at > t

\* The filter of cleanup_expired: expires_at < utcnow().
ExpiredFilter(r, t) == r.expires_at < t

\* Query(...).first()
First(S) == IF S = {} THEN NoRow ELSE CHOOSE r \in S : TRUE

RowById(id) == First({r \in rows : r.id = id})
HasRow(id) == \E r \in rows : r.id = id

\* A table without the unique constraint on cache_key.
UniqueViolationNever(key) == FALSE

\* unique=True on cache_key
UniqueViolation(key) == \E r \in rows : r.cache_key = key

\* ForeignKey("deviations.id") on deviation_id
ForeignKeyViolation(d) == d \notin deviations

\* ------------------------------------------------ get_cached_response
\* GeminiCacheService.enabled
enabled == TRUE

\* dict[k] = v: replaces the value of an existing key, else appends the pair.
SetItem(m, k, v) ==
    IF \E i \in 1..Len(m.items) : m.items[i][1] = k
    THEN Dict([i \in 1..Len(m.items) |->
                 IF m.items[i][1] = k THEN <<k, v>> ELSE m.items[i]])
    ELSE Dict(Append(m.items, <<k, v>>))

\* `suggestion['cached'] = True` works on the items of a list of dicts; on any
\* other item (or on the keys of a dict, the characters of a string) it raises
\* TypeError.
CanMark(val) ==
    val.ty = "list" /\ \A i \in 1..Len(val.items) : val.items[i].ty = "dict"

\* `for suggestion in cached_response: suggestion['cached'] = True`
MarkCached(val) ==
    List([i \in 1..Len(val.items) |-> SetItem(val.items[i], "cached", PyTrue)])

\* The sections of a complete analysis.
Sections == <<"causes", "consequences", "safeguards">>

\* `m.get(k, default)` of a dict
DictGet(m, k, default) ==
    IF \E i \in 1..Len(m.items) : m.items[i][1] = k
    THEN m.items[CHOOSE i \in 1..Len(m.items) : m.items[i][1] = k][2]
    ELSE default

\* Lines 332-334: `cached_response.get(section, [])` needs a dict, the loop a
\* value that can be iterated, and `item['cached'] = True` dicts as its items.
CanMarkSections(val) ==
    /\ val.ty = "dict"
    /\ \A i \in 1..Len(Sections) :
          LET sec == DictGet(val, Sections[i], List(<<>>)) IN
          \/ CanMark(sec)
          \/ sec.ty \in {"dict", "str"} /\ ~Truthy(sec)

RECURSIVE MarkSectionsFrom(_, _)
MarkSectionsFrom(val, i) ==
    IF i > Len(Sections) THEN val
    ELSE LET sec == DictGet(val, Sections[i], List(<<>>))
             marked == IF sec.ty = "list" /\ sec.items # <<>>
                       THEN SetItem(val, Sections[i], MarkCached(sec))
                       ELSE val
         IN  MarkSectionsFrom(marked, i + 1)

MarkSections(val) == MarkSectionsFrom(val, 1)

\* {"causes": [], "consequences": [], "safeguards": []}
EmptyAnalysis ==
    Dict(<< <<"causes", List(<<>>)>>, <<"consequences", List(<<>>)>>,
            <<"safeguards", List(<<>>)>> >>)

\* What a suggest operation returns without an upstream result.
EmptyResult(kind) == IF kind = "complete_analysis" THEN EmptyAnalysis ELSE List(<<>>)

\* models/study.py: the attributes of a HazopNode and of a Deviation.
HazopNodeAttrs ==
    {"id", "study_id", "node_number", "node_name", "description",
     "design_intent", "sort_order", "status", "created_at", "updated_at",
     "study", "deviations"}
DeviationAttrs ==
    {"id", "node_id", "parameter", "guide_word", "deviation_description",
     "sort_order", "created_at", "updated_at", "node"}

\* The attributes the prompt builders read of the node and of the deviation.
PromptReads(kind) ==
    IF kind = "complete_analysis"
    THEN [node |-> {"node_number", "parameter", "guide_word"}, deviation |-> {}]
    ELSE [node |-> {"node_number", "node_name"},
          deviation |-> {"parameter", "guide_word", "deviation_description"}]

\* A prompt builder that reads an attribute its object has not raises
\* AttributeError; the builders are called outside the try blocks.
PromptRaises(kind) ==
    \/ ~(PromptReads(kind).node \subseteq HazopNodeAttrs)
    \/ ~(PromptReads(kind).deviation \subseteq DeviationAttrs)

\* What `except Exception` of get_cached_response does with an error.
get_on_exception == "return_none"

\* What `except Exception` of cache_response does with an error.
put_on_exception == "return_false"

\* A request that never takes the cached branch.
CacheHitNever(val) == FALSE

\* `if cached_response:` of the suggest_* requests
CacheHit(val) == Truthy(val)

\* The node and the deviation of a suggest_* request are rows that the
\* endpoint loaded in the session of the request (api/gemini.py lines 73-82).
\* The db.commit of line 51 of get_cached_response, done or failed, expires
\* them, so the next read of one of their attributes loads the row again.
Expired(ss) == ss.pc \in {"get_commit", "get_load"}

\* The session after get_cached_response returned val: the call is over, or
\* the suggest_* request goes on (cache hit: mark it, outside any try block,
\* and return it after the log line that reads the id of the deviation or
\* node; miss: build the prompt and call upstream).
GetReturn(ss, val) ==
    LET over == [ss EXCEPT !.ret = val, !.obj = NoRow, !.dirty = "none"]
        next == IF Expired(ss) THEN "reload" ELSE "done"
    IN
    IF ss.op = "get" THEN [over EXCEPT !.pc = "done"]
    ELSE IF CacheHit(val)
         THEN IF ss.t = "complete_analysis"
              THEN IF CanMarkSections(val)
                   THEN [over EXCEPT !.result = MarkSections(val), !.pc = next]
                   ELSE [over EXCEPT !.raised = TRUE, !.pc = "done"]
              ELSE IF CanMark(val)
                   THEN [over EXCEPT !.result = MarkCached(val), !.pc = next]
                   ELSE [over EXCEPT !.raised = TRUE, !.pc = "done"]
         ELSE IF Expired(ss)
              THEN [over EXCEPT !.pc = "reload"]
         ELSE IF PromptRaises(ss.t)
              THEN [over EXCEPT !.raised = TRUE, !.pc = "done"]
              ELSE [over EXCEPT !.pc = "upstream"]

\* The session after an exception inside the try block of get_cached_response.
\* The suggest_* requests call it outside their own try block.
GetRaise(ss) ==
    IF get_on_exception = "return_none" THEN GetReturn(ss, PyNone)
    ELSE [ss EXCEPT !.raised = TRUE, !.pc = "done", !.obj = NoRow, !.dirty = "none"]

\* The session after cache_response returned ok; suggest_* then returns the
\* suggestions it parsed.
PutReturn(ss, ok) ==
    LET over == [ss EXCEPT !.putret = ok, !.obj = NoRow, !.loaded = <<>>,
                           !.dirty = "none"] IN
    IF ss.op = "put" THEN [over EXCEPT !.pc = "done"]
    ELSE [over EXCEPT !.result = ss.v, !.pc = "done"]

\* The session after an exception inside the try block of cache_response.
\* The suggest_* requests call it inside their try block, which returns [].
PutRaise(ss) ==
    IF put_on_exception = "return_false" THEN PutReturn(ss, "False")
    ELSE IF ss.op = "put"
         THEN [ss EXCEPT !.raised = TRUE, !.pc = "done", !.obj = NoRow,
                         !.loaded = <<>>, !.dirty = "none"]
    ELSE [ss EXCEPT !.result = EmptyResult(ss.t), !.pc = "done",
                    !.obj = NoRow, !.loaded = <<>>, !.dirty = "none"]

StartGet(s, d, c, t) ==
    /\ sess[s].pc \in {"idle", "done"}
    /\ ops' = ops + 1
    /\ sess' = [sess EXCEPT ![s] =
                  [IdleSession EXCEPT !.op = "get", !.pc = "get_query",
                                      !.d = d, !.c = c, !.t = t]]
    /\ UNCHANGED <<now, deviations, rows, nextId, sweepRet, lastPut, lastTry, sched, stats, hazop>>

\* Lines 37-50: the key, the query for a live row, update_access_stats.
GetQuery(s) ==
    /\ sess[s].pc = "get_query"
    /\ LET ss == [sess[s] EXCEPT !.tq = now]
           key == generate_cache_key(ss.d, ss.c, ss.t)
           cached == First({r \in rows : LiveFilter(r, key, now)})
       IN  sess' = [sess EXCEPT ![s] =
                IF ~enabled THEN GetReturn(ss, PyNone)
                ELSE IF cached # NoRow
                     THEN [ss EXCEPT !.obj = update_access_stats(cached, now),
                                     !.dirty = "update", !.pc = "get_commit"]
                     ELSE GetReturn(ss, PyNone)]
    /\ UNCHANGED <<now, deviations, rows, nextId, sweepRet, ops, lastPut, lastTry, sched, stats, hazop>>

\* A hit whose commit also moves the expiry of the row on.
GetCommitSliding(s) ==
    /\ sess[s].pc = "get_commit"
    /\ LET ss == sess[s] IN
       IF HasRow(ss.obj.id)
       THEN /\ rows' = (rows \ {RowById(ss.obj.id)}) \cup
                       {[RowById(ss.obj.id) EXCEPT
                            !.access_count = ss.obj.access_count,
                            !.last_accessed = ss.obj.last_accessed,
                            !.expires_at = ss.obj.last_accessed + cache_ttl]}
            /\ sess' = [sess EXCEPT ![s].pc = "get_load"]
       ELSE /\ rows' = rows
            /\ sess' = [sess EXCEPT ![s] =
                          GetRaise([ss EXCEPT !.gfail = TRUE, !.broken = TRUE])]
    /\ UNCHANGED <<now, deviations, nextId, sweepRet, ops, lastPut, lastTry, sched, stats, hazop>>

\* Line 51: commit writes the two changed columns to the row with that id;
\* with the row gone the UPDATE matches nothing and the flush of the commit
\* raises StaleDataError.  The session then refuses every further statement
\* until it is rolled back (PendingRollbackError), and nothing in the
\* application rolls it back.
GetCommit(s) ==
    /\ sess[s].pc = "get_commit"
    /\ LET ss == sess[s] IN
       IF HasRow(ss.obj.id)
       THEN /\ rows' = (rows \ {RowById(ss.obj.id)}) \cup
                       {[RowById(ss.obj.id) EXCEPT
                            !.access_count = ss.obj.access_count,
                            !.last_accessed = ss.obj.last_accessed]}
            /\ sess' = [sess EXCEPT ![s].pc = "get_load"]
       ELSE /\ rows' = rows
            /\ sess' = [sess EXCEPT ![s] =
                          GetRaise([ss EXCEPT !.gfail = TRUE, !.broken = TRUE])]
    /\ UNCHANGED <<now, deviations, nextId, sweepRet, ops, lastPut, lastTry, sched, stats, hazop>>

\* Line 54: the commit expired the object, so response_data is read again
\* from the row, and json.loads turns it into the returned value.  With the
\* row gone the read raises ObjectDeletedError and the session stays usable.
GetLoad(s) ==
    /\ sess[s].pc = "get_load"
    /\ LET ss == sess[s]
           loaded == json_loads(RowById(ss.obj.id).response_data)
       IN  sess' = [sess EXCEPT ![s] =
                IF HasRow(ss.obj.id) /\ loaded.ok
                THEN GetReturn(ss, loaded.val)
                ELSE GetRaise([ss EXCEPT !.gfail = TRUE])]
    /\ UNCHANGED <<now, deviations, rows, nextId, sweepRet, ops, lastPut, lastTry, sched, stats, hazop>>

\* gemini_service.py lines 91 and 95 (172 and 176, 256 and 260, 336 and 340):
\* the first read of an attribute of the expired deviation or node, the id in
\* the log line of a hit or the fields the prompt is built from, loads its
\* row again, outside any try block.  In a session that awaits a rollback
\* the load raises PendingRollbackError; with the row deleted in the
\* meantime it raises ObjectDeletedError.  A deviation that is stored has its
\* node stored.
Reload(s) ==
    /\ sess[s].pc = "reload"
    /\ LET ss == sess[s]
           stored == IF ss.t = "complete_analysis" THEN ss.d \in DOMAIN hazop.nodes
                     ELSE ss.d \in deviations
       IN  sess' = [sess EXCEPT ![s] =
                IF ss.broken \/ ~stored
                THEN [ss EXCEPT !.raised = TRUE, !.result = PyNone, !.pc = "done"]
                ELSE IF CacheHit(ss.ret) THEN [ss EXCEPT !.pc = "done"]
                ELSE IF PromptRaises(ss.t)
                     THEN [ss EXCEPT !.raised = TRUE, !.pc = "done"]
                     ELSE [ss EXCEPT !.pc = "upstream"]]
    /\ UNCHANGED <<now, deviations, rows, nextId, sweepRet, ops, lastPut, lastTry, sched, stats, hazop>>

\* ------------------------------------------------------- cache_response
StartPut(s, d, c, t, v) ==
    /\ sess[s].pc \in {"idle", "done"}
    /\ ops' = ops + 1
    /\ sess' = [sess EXCEPT ![s] =
                  [IdleSession EXCEPT !.op = "put", !.pc = "put_query",
                                      !.d = d, !.c = c, !.t = t, !.v = v]]
    /\ UNCHANGED <<now, deviations, rows, nextId, sweepRet, lastPut, lastTry, sched, stats, hazop>>

\* expires_at = datetime.utcnow() + self.cache_ttl
ExpiresAt(t) == t + cache_ttl

\* An update that replaces the payload but leaves the old expiry in place.
UpdateExistingKeepExpiry(existing, v, t) ==
    [existing EXCEPT !.response_data = json_dumps(v, FALSE),
                     !.access_count = @ + 1,
                     !.last_accessed = t]

\* Lines 76-80: the existing row as changed in memory.
UpdateExisting(existing, v, t) ==
    [existing EXCEPT !.response_data = json_dumps(v, FALSE),
                     !.expires_at = ExpiresAt(t),
                     !.access_count = @ + 1,
                     !.last_accessed = t]

\* Lines 86-97: the new row.
NewEntry(d, c, kind, v, t) ==
    [id |-> 0,
     cache_key |-> generate_cache_key(d, c, kind),
     deviation_id |-> d,
     suggestion_type |-> kind,
     context_hash |-> hash_context(OrEmptyDict(c)),
     response_data |-> json_dumps(v, FALSE),
     created_at |-> t,
     expires_at |-> ExpiresAt(t),
     access_count |-> 1,
     last_accessed |-> t]

\* Lines 64-97: the key, the query for an existing row, the pending change.
\* In a session whose earlier statement failed the query raises.
PutQuery(s) ==
    /\ sess[s].pc = "put_query"
    /\ LET ss == [sess[s] EXCEPT !.tp = now]
           key == generate_cache_key(ss.d, ss.c, ss.t)
           existing == First({r \in rows : r.cache_key = key})
       IN  sess' = [sess EXCEPT ![s] =
                IF ~enabled THEN PutReturn(ss, "False")
                ELSE IF ss.broken THEN PutRaise([ss EXCEPT !.pfail = TRUE])
                ELSE IF existing # NoRow
                     THEN [ss EXCEPT !.obj = UpdateExisting(existing, ss.v, now),
                                     !.loaded = existing.response_data,
                                     !.dirty = "update", !.pc = "put_commit"]
                     ELSE [ss EXCEPT !.obj = NewEntry(ss.d, ss.c, ss.t, ss.v, now),
                                     !.dirty = "insert", !.pc = "put_commit"]]
    /\ UNCHANGED <<now, deviations, rows, nextId, sweepRet, ops, lastPut, lastTry, sched, stats, hazop>>

\* The commit of cache_response succeeds: an UPDATE needs its row, an INSERT
\* must respect the unique key and the foreign key.
CommitOk(ss) ==
    IF ss.dirty = "update" THEN HasRow(ss.obj.id)
    ELSE ~UniqueViolation(ss.obj.cache_key) /\ ~ForeignKeyViolation(ss.obj.deviation_id)

Record(hist, ss) ==
    {h \in hist : h.triple # TripleOf(ss.d, ss.c, ss.t)} \cup
    {[triple |-> TripleOf(ss.d, ss.c, ss.t), c |-> ss.c, v |-> ss.v, at |-> ss.tp]}

\* The UPDATE of line 81 carries the attributes whose value differs from the
\* one loaded: access_count, the two timestamps (the clock never reads twice
\* the same), and response_data when the new text is not the loaded text.
WriteChanged(row, ss) ==
    [row EXCEPT
        !.response_data = IF ss.obj.response_data # ss.loaded
                          THEN ss.obj.response_data ELSE @,
        !.expires_at = ss.obj.expires_at,
        !.access_count = ss.obj.access_count,
        !.last_accessed = ss.obj.last_accessed]

\* Lines 81 and 99-105: the commit, and the return value.
PutCommit(s) ==
    /\ sess[s].pc = "put_commit"
    /\ LET ss == sess[s] IN
       /\ lastTry' = Record(lastTry, ss)
       /\ IF CommitOk(ss)
          THEN /\ IF ss.dirty = "update"
                  THEN /\ rows' = (rows \ {RowById(ss.obj.id)}) \cup
                                  {WriteChanged(RowById(ss.obj.id), ss)}
                       /\ nextId' = nextId
                  ELSE /\ rows' = rows \cup {[ss.obj EXCEPT !.id = nextId]}
                       /\ nextId' = nextId + 1
               /\ sess' = [sess EXCEPT ![s] = PutReturn(ss, "True")]
               /\ lastPut' = Record(lastPut, ss)
          ELSE /\ sess' = [sess EXCEPT ![s] = PutRaise(ss)]
               /\ UNCHANGED <<rows, nextId, lastPut>>
    /\ UNCHANGED <<now, deviations, sweepRet, ops, sched, stats, hazop>>

\* ------------------------------------------------------ suggest_* requests
\* context_dict of suggest_causes / suggest_consequences / suggest_safeguards
context_dict(kind, context, cause_text, consequence_text) ==
    LET base == OrEmptyDict(context)
        withCause == IF Truthy(cause_text)
                     THEN SetItem(base, "cause_text", cause_text) ELSE base
    IN  CASE kind = "causes" -> base
          [] kind = "consequences" -> withCause
          [] kind = "safeguards" ->
                IF Truthy(consequence_text)
                THEN SetItem(withCause, "consequence_text", consequence_text)
                ELSE withCause

\* Lines 72-84 (152-165, 233-249): the cache service exists when caching is
\* enabled and a session was passed; the request then starts with the lookup.
StartSuggest(s, kind, d, context, cause_text, consequence_text, cs) ==
    /\ sess[s].pc \in {"idle", "done"}
    /\ ops' = ops + 1
    /\ sess' = [sess EXCEPT ![s] =
                  [IdleSession EXCEPT
                      !.op = "suggest",
                      !.pc = IF cs THEN "get_query" ELSE "upstream",
                      !.d = d, !.t = kind, !.cs = cs,
                      !.c = context_dict(kind, context, cause_text, consequence_text),
                      !.req = [context |-> context, cause_text |-> cause_text,
                               consequence_text |-> consequence_text]]]
    /\ UNCHANGED <<now, deviations, rows, nextId, sweepRet, lastPut, lastTry, sched, stats, hazop>>

\* Lines 68-70 (306-308): without an API key the operation returns its empty
\* result at once.
SuggestWithoutKey(s, kind) ==
    /\ sess[s].pc \in {"idle", "done"}
    /\ ops' = ops + 1
    /\ sess' = [sess EXCEPT ![s] =
                  [IdleSession EXCEPT !.op = "suggest", !.pc = "done", !.t = kind,
                                      !.key = FALSE,
                                      !.result = EmptyResult(kind)]]
    /\ UNCHANGED <<now, deviations, rows, nextId, sweepRet, lastPut, lastTry, sched, stats, hazop>>

\* api/gemini.py lines 73-82: the node of a stored deviation, and the
\* description of the deviation.
NodeOf(d) == hazop.node_id[d]
DeviationText(d) == Str("high pressure")

\* Lines 316-319: the context of the key of a complete analysis.
analysis_context_dict(context, deviation_text) ==
    IF Truthy(deviation_text)
    THEN SetItem(OrEmptyDict(context), "deviation_text", deviation_text)
    ELSE OrEmptyDict(context)

\* Lines 310-340: suggest_complete_analysis with an API key, for the node of
\* deviation d; the entry is looked up under the id of the node.
StartCompleteAnalysis(s, d, context, cs) ==
    /\ sess[s].pc \in {"idle", "done"}
    /\ ops' = ops + 1
    /\ sess' = [sess EXCEPT ![s] =
                  [IdleSession EXCEPT
                      !.op = "suggest",
                      !.pc = IF cs THEN "get_query"
                             ELSE IF PromptRaises("complete_analysis") THEN "done"
                             ELSE "upstream",
                      !.raised = ~cs /\ PromptRaises("complete_analysis"),
                      !.d = NodeOf(d), !.t = "complete_analysis", !.cs = cs,
                      !.c = analysis_context_dict(context, DeviationText(d)),
                      !.req = [context |-> context, cause_text |-> PyNone,
                               consequence_text |-> PyNone]]]
    /\ UNCHANGED <<now, deviations, rows, nextId, sweepRet, lastPut, lastTry, sched, stats, hazop>>

\* api/gemini.py lines 16-20: the fields of AIAssistanceContext.
ContextFields ==
    <<"process_description", "fluid_type", "operating_conditions",
      "previous_incidents">>

\* AIAssistanceContext.dict(): every field, None where the body left it out.
context_model_dict(body) ==
    Dict([i \in 1..Len(ContextFields) |->
            <<ContextFields[i], DictGet(body, ContextFields[i], PyNone)>>])

\* Line 101: `req.context.dict() if req.context else None`; a model instance
\* is truthy whatever its fields.
RequestContext(body) ==
    IF body.ty = "null" THEN PyNone ELSE context_model_dict(body)

\* POST /api/gemini/suggest-causes for a stored deviation, with an API key,
\* caching enabled and the session of the request.
PostSuggestCauses(s, d, body) ==
    /\ d \in deviations
    /\ sess[s].pc \in {"idle", "done"}
    /\ ops' = ops + 1
    /\ LET context == RequestContext(body)
       IN  sess' = [sess EXCEPT ![s] =
                  [IdleSession EXCEPT
                      !.op = "suggest", !.pc = "get_query",
                      !.d = d, !.t = "causes", !.cs = TRUE,
                      !.c = context_dict("causes", context, PyNone, PyNone),
                      !.req = [context |-> context, cause_text |-> PyNone,
                               consequence_text |-> PyNone]]]
    /\ UNCHANGED <<now, deviations, rows, nextId, sweepRet, lastPut, lastTry, sched, stats, hazop>>

\* What the Gemini API does with a prompt: an error, a blocked response, or
\* some text.
ApiError == [kind |-> "error", text |-> <<>>]
ApiBlocked == [kind |-> "blocked", text |-> <<>>]
ApiText(text) == [kind |-> "text", text |-> text]
\* The markdown code fences, three backquotes with and without "json".
FenceJson == TokW("fence-json")
FenceEnd == TokW("fence")
Fence(text) == <<FenceJson>> \o text \o <<FenceEnd>>
ApiOutcomes ==
    { ApiError, ApiBlocked,
      ApiText(json_dumps(V1, FALSE)),
      ApiText(Fence(json_dumps(V2, FALSE))),
      ApiText(json_dumps(Suggestion("leak"), FALSE)),
      ApiText(json_dumps(Names, FALSE)),
      ApiText(<<TokW("Sorry"), TokP(",")>>) }

\* GeminiService._generate_response, for an API outcome that is no error
generate_response(api) ==
    IF api.kind = "blocked" THEN <<TokP("["), TokP("]")>> ELSE api.text

\* GeminiService._parse_suggestions
StripFences(text) ==
    LET a == IF text # <<>> /\ Head(text) = FenceJson THEN Tail(text) ELSE text
        b == IF a # <<>> /\ Head(a) = FenceEnd THEN Tail(a) ELSE a
    IN  IF b # <<>> /\ b[Len(b)] = FenceEnd THEN SubSeq(b, 1, Len(b) - 1) ELSE b

parse_suggestions(response) ==
    LET suggestions == json_loads(StripFences(response)) IN
    IF ~suggestions.ok THEN List(<<>>)
    ELSE IF suggestions.val.ty # "list" THEN List(<<>>)
    ELSE suggestions.val

\* A request that stores whatever it parsed, empty or not.
ShouldCacheAlways(cs, suggestions) == cs

\* `if cache_service and suggestions:`
ShouldCache(cs, suggestions) == cs /\ Truthy(suggestions)

\* GeminiService._parse_complete_analysis
parse_complete_analysis(response) ==
    LET analysis == json_loads(StripFences(response)) IN
    IF ~analysis.ok THEN EmptyAnalysis
    ELSE IF analysis.val.ty # "dict" THEN EmptyAnalysis
    ELSE Dict([i \in 1..Len(Sections) |->
                 <<Sections[i], DictGet(analysis.val, Sections[i], List(<<>>))>>])

\* len() is defined on strings, lists and dicts and raises TypeError on the
\* other values.
HasLen(v) == v.ty \in {"str", "list", "dict"}

\* Line 353: `if cache_service and any(len(analysis.get(k, [])) > 0 ...)`
ShouldCacheAnalysis(cs, analysis) ==
    cs /\ \E i \in 1..Len(Sections) :
            Truthy(DictGet(analysis, Sections[i], List(<<>>)))

\* Lines 100-118 (344-364): the upstream call, the parse, and either the
\* return or the call of cache_response.  Of a complete analysis the lengths
\* of the sections are logged first, inside the try block.
Upstream(s, api) ==
    /\ sess[s].pc = "upstream"
    /\ LET ss == [sess[s] EXCEPT !.up = api]
           suggestions == parse_suggestions(generate_response(api))
           analysis == parse_complete_analysis(generate_response(api))
       IN  sess' = [sess EXCEPT ![s] =
                IF api.kind = "error"
                THEN [ss EXCEPT !.result = EmptyResult(ss.t), !.pc = "done"]
                ELSE IF ss.t = "complete_analysis"
                THEN IF \E i \in 1..Len(Sections) :
                           ~HasLen(DictGet(analysis, Sections[i], List(<<>>)))
                     THEN [ss EXCEPT !.result = EmptyAnalysis, !.pc = "done"]
                     ELSE IF ShouldCacheAnalysis(ss.cs, analysis)
                          THEN [ss EXCEPT !.v = analysis, !.pc = "put_query"]
                          ELSE [ss EXCEPT !.result = analysis, !.pc = "done"]
                ELSE IF ShouldCache(ss.cs, suggestions)
                     THEN [ss EXCEPT !.v = suggestions, !.pc = "put_query"]
                     ELSE [ss EXCEPT !.result = suggestions, !.pc = "done"]]
    /\ UNCHANGED <<now, deviations, rows, nextId, sweepRet, ops, lastPut, lastTry, sched, stats, hazop>>

\* ------------------------------------------------------- storage failures
\* The database raises inside get_cached_response: on the query of line 43,
\* on the UPDATE that the commit of line 51 flushes, or on the read of line
\* 54.  The transaction of the session is then aborted, and the session
\* refuses every further statement until it is rolled back.
GetFail(s) ==
    /\ sess[s].pc \in {"get_query", "get_commit", "get_load"}
    /\ sess' = [sess EXCEPT ![s] =
                  GetRaise([sess[s] EXCEPT
                              !.gfail = TRUE, !.broken = TRUE,
                              !.tq = IF @ = -1 THEN now ELSE @])]
    /\ UNCHANGED <<now, deviations, rows, nextId, sweepRet, ops, lastPut, lastTry, sched, stats, hazop>>

\* The database raises inside cache_response.
PutFail(s) ==
    /\ sess[s].pc \in {"put_query", "put_commit"}
    /\ sess' = [sess EXCEPT ![s] = PutRaise([sess[s] EXCEPT !.pfail = TRUE])]
    /\ UNCHANGED <<now, deviations, rows, nextId, sweepRet, ops, lastPut, lastTry, sched, stats, hazop>>

\* ------------------------------------------------------ cleanup_expired
\* Lines 115-120: delete the rows past expiry, commit, return their number.
DeleteExpired ==
    /\ rows' = {r \in rows : ~ExpiredFilter(r, now)}
    /\ sweepRet' = Cardinality({r \in rows : ExpiredFilter(r, now)})

\* Lines 121-123: the delete or the commit raised; nothing is deleted, 0 is
\* returned.
DeleteFailed ==
    /\ rows' = rows
    /\ sweepRet' = 0

cleanup_expired ==
    /\ ops' = ops + 1
    /\ DeleteExpired
    /\ UNCHANGED <<now, deviations, nextId, sess, lastPut, lastTry, sched, stats, hazop>>

\* The clock moves on by a number of days.
Advance(days) ==
    /\ now + days <= MaxTime
    /\ now' = now + days
    /\ UNCHANGED <<deviations, rows, nextId, sess, sweepRet, ops, lastPut, lastTry, sched, stats, hazop>>

\* ------------------------------------------------------------ get_stats
RECURSIVE SumAccessCount(_)
\* sum(count[0] for count in total_access_count)
SumAccessCount(rs) ==
    IF rs = {} THEN 0
    ELSE LET r == CHOOSE x \in rs : TRUE
         IN  r.access_count + SumAccessCount(rs \ {r})

\* round(x, 2) of the quotient num / den, in hundredths (no quotient of the
\* numbers that occur lies halfway between two hundredths).
Round2(num, den) == (200 * num + den) \div (2 * den)

\* The queries of get_stats, in the order of lines 128-158: each is its own
\* statement and reads the table as it is when it runs.
StatsQueries == <<"count", "hits", "types", "day", "week">>

\* Queries that leave out the rows past expiry.
StatsQueryLive(q, rs, since) ==
    LET live == {r \in rs : r.expires_at > now}
    IN  CASE q = "count" -> Cardinality(live)
          [] q = "hits" -> SumAccessCount(live)
          [] q = "types" ->
                [ty \in {r.suggestion_type : r \in live} |->
                    Cardinality({r \in live : r.suggestion_type = ty})]
          [] OTHER -> Cardinality({r \in live : r.created_at > since})

\* Lines 128, 129-135, 139-146, 152-154 and 156-158: what one query of
\* get_stats gives over the rows rs; since is day_ago or week_ago.
StatsQuery(q, rs, since) ==
    CASE q = "count" -> Cardinality(rs)
      [] q = "hits" -> SumAccessCount(rs)
      [] q = "types" ->
            [ty \in {r.suggestion_type : r \in rs} |->
                Cardinality({r \in rs : r.suggestion_type = ty})]
      [] OTHER -> Cardinality({r \in rs : r.created_at > since})

\* The locals of get_stats before its first query; week_ago is set at
\* line 150.
NoLocals ==
    [total_entries |-> 0, total_hits |-> 0, type_distribution |-> <<>>,
     last_day_entries |-> 0, week_ago |-> 0]

\* A call of get_stats under way: role is the role of the user when the call
\* came through the endpoint and "service" when it was made directly, q the
\* position of the next query in StatsQueries.
StatsRunning(role) == [kind |-> "running", role |-> role, q |-> 1, locals |-> NoLocals]

\* Lines 160-169: the report built from the locals.
StatsReport(l, last_week_entries) ==
    [kind |-> "stats",
     total_entries |-> l.total_entries,
     total_hits |-> l.total_hits,
     avg_hits_per_entry |->
         IF l.total_entries > 0 THEN Round2(l.total_hits, l.total_entries) ELSE 0,
     type_distribution |-> l.type_distribution,
     last_24h_entries |-> l.last_day_entries,
     last_7d_entries |-> last_week_entries,
     ttl_days |-> cache_ttl,
     enabled |-> enabled]

\* Lines 170-174: a query raised.
StatsError == [kind |-> "error"]

\* ------------------------------------------------- GET /gemini/cache-stats
\* user.py line 19: the organisation roles.
OrgRoles == {"owner", "admin", "member", "viewer"}

\* Line 636, in ten-thousandths of a dollar.
estimated_cost_per_call == 4

\* Line 639.
cache_hits(total_hits, total_entries) ==
    IF total_hits > total_entries THEN total_hits - total_entries ELSE 0

\* Lines 632-649: what the endpoint makes of the report of get_stats; an error
\* report has none of the keys read with stats.get.  cache_hits is the local
\* of line 639; estimated_cost_savings_usd is in cents and
\* cache_hit_rate_percent in hundredths of a percent; role is the role of the
\* user the response went to.
CacheStatsResponse(role, st) ==
    LET total_hits == IF st.kind = "stats" THEN st.total_hits ELSE 0
        total_entries == IF st.kind = "stats" THEN st.total_entries ELSE 0
        hits == cache_hits(total_hits, total_entries)
    IN  [kind |-> "cache_stats",
         role |-> role,
         stats |-> st,
         cache_hits |-> hits,
         estimated_cost_savings_usd |-> Round2(hits * estimated_cost_per_call, 10000),
         cache_hit_rate_percent |->
             IF total_hits > 0 THEN Round2(hits * 100, total_hits) ELSE 0,
         cache_status |->
             IF st.kind = "stats" /\ st.enabled THEN "active" ELSE "disabled"]

\* Lines 621-625.
Forbidden(role) == [kind |-> "http", role |-> role, status |-> 403]

\* An endpoint open to every role.
PermittedAlways(role) == TRUE

\* Line 621: `current_user.org_role not in ["owner", "admin"]` is refused.
Permitted(role) == role \in {"owner", "admin"}

\* What the caller of get_stats receives: the report itself, or the response
\* the endpoint makes of it.
StatsAnswer(role, st) ==
    IF role = "service" THEN st ELSE CacheStatsResponse(role, st)

\* A query step that also counts itself as an access of every row.
StatsStepCounting(fail) ==
    /\ stats.kind = "running"
    /\ stats' = StatsAnswer(stats.role, StatsError)
    /\ rows' = {update_access_stats(r, now) : r \in rows}
    /\ UNCHANGED <<now, deviations, nextId, sess, sweepRet, ops, lastPut, lastTry, sched, hazop>>

\* GeminiCacheService.get_stats, one query at a time: the next query runs
\* (or raises, and the except of line 170 returns the error report); after
\* the last one the report is returned.
StatsStep(fail) ==
    /\ stats.kind = "running"
    /\ LET q == StatsQueries[stats.q]
           l == stats.locals
           day_ago == now - 1
           week_ago == now - 7
       IN  stats' =
             IF fail THEN StatsAnswer(stats.role, StatsError)
             ELSE CASE q = "count" ->
                         [stats EXCEPT !.q = @ + 1,
                             !.locals.total_entries = StatsQuery(q, rows, 0)]
                    [] q = "hits" ->
                         [stats EXCEPT !.q = @ + 1,
                             !.locals.total_hits = StatsQuery(q, rows, 0)]
                    [] q = "types" ->
                         [stats EXCEPT !.q = @ + 1,
                             !.locals.type_distribution = StatsQuery(q, rows, 0)]
                    [] q = "day" ->
                         [stats EXCEPT !.q = @ + 1,
                             !.locals.last_day_entries = StatsQuery(q, rows, day_ago),
                             !.locals.week_ago = week_ago]
                    [] OTHER ->
                         StatsAnswer(stats.role,
                             StatsReport(l, StatsQuery(q, rows, l.week_ago)))
    /\ UNCHANGED <<now, deviations, rows, nextId, sess, sweepRet, ops, lastPut, lastTry, sched, hazop>>

\* A direct call of GeminiCacheService.get_stats begins.
get_stats ==
    /\ stats.kind # "running"
    /\ ops' = ops + 1
    /\ stats' = StatsRunning("service")
    /\ UNCHANGED <<now, deviations, rows, nextId, sess, sweepRet, lastPut, lastTry, sched, hazop>>

\* The endpoint get_cache_stats called by a user of the given role: the role
\* check of line 621, then the call of get_stats of line 632.
get_cache_stats(role) ==
    /\ stats.kind # "running"
    /\ ops' = ops + 1
    /\ stats' = IF ~Permitted(role) THEN Forbidden(role) ELSE StatsRunning(role)
    /\ UNCHANGED <<now, deviations, rows, nextId, sess, sweepRet, lastPut, lastTry, sched, hazop>>

\* ------------------------------------------------------- the studies API
\* Every endpoint runs in the session of its request; a statement sees what
\* was committed before it runs, so a handler is one step for each round
\* trip to the database that reads or writes committed data.
Others == <<now, nextId, sess, sweepRet, lastPut, lastTry, sched, stats>>

Call(u) == hazop.calls[u]

\* The user has no request under way.
Free(u) == Call(u).pc \in {"idle", "done"}

\* The handler of user u returns, or raises: the response.
Respond(h, u, status, shows) ==
    [h EXCEPT !.calls[u].pc = "done", !.calls[u].status = status,
              !.calls[u].shows = shows]

\* A function without the keys gone.
Drop(f, gone) == [x \in DOMAIN f \ gone |-> f[x]]

\* HazopNode.study_id and Deviation.node_id of the stored rows.
NodesOf(sts) == {n \in DOMAIN hazop.nodes : hazop.nodes[n].study_id \in sts}
DeviationsOf(nodes) == {d \in deviations : NodeOf(d) \in nodes}

\* A deletion that leaves the cache rows of the deviations behind.
CascadeKeepingRows(ds) ==
    /\ deviations' = deviations \ ds
    /\ rows' = rows

\* db.delete of deviations: gemini_cache.deviation_id is declared
\* ON DELETE CASCADE, so their cache rows go with them.
Cascade(ds) ==
    /\ deviations' = deviations \ ds
    /\ rows' = {r \in rows : r.deviation_id \notin ds}

\* studies.py lines 155-168
get_study(u, st) ==
    /\ Free(u)
    /\ ops' = ops + 1
    /\ hazop' = LET h == [hazop EXCEPT !.calls[u] =
                             [NoCall EXCEPT !.op = "get_study", !.id = st]]
                IN  IF st \in DOMAIN hazop.studies
                       /\ hazop.studies[st].organization_id = u
                    THEN Respond(h, u, 200, {st}) ELSE Respond(h, u, 404, {})
    /\ UNCHANGED <<deviations, rows>>
    /\ UNCHANGED Others

\* studies.py lines 284-292
list_deviations(u, n) ==
    /\ Free(u)
    /\ ops' = ops + 1
    /\ hazop' = Respond([hazop EXCEPT !.calls[u] =
                            [NoCall EXCEPT !.op = "list_deviations", !.id = n]],
                        u, 200, DeviationsOf({n}))
    /\ UNCHANGED <<deviations, rows>>
    /\ UNCHANGED Others

\* The query of lines 179, 269, 301, 317, 338, 353 and 381, by id alone, and
\* the 404 of the line after it; a handler that found its row goes on to its
\* db.commit.
Lookup(u, op, id, found, name, loaded, incl) ==
    /\ Free(u)
    /\ ops' = ops + 1
    /\ hazop' = LET h == [hazop EXCEPT !.calls[u] =
                             [NoCall EXCEPT !.op = op, !.id = id, !.name = name]]
                IN  IF found
                    THEN [h EXCEPT !.calls[u].pc = IF op = "duplicate_node"
                                                   THEN "flush" ELSE "commit",
                                   !.calls[u].loaded = loaded,
                                   !.calls[u].incl = incl]
                    ELSE Respond(h, u, 404, {})
    /\ UNCHANGED <<deviations, rows>>
    /\ UNCHANGED Others

\* studies.py lines 69-85: the INSERT and COMMIT of create_study; the study
\* is of the organisation of the user.
create_study(u) ==
    /\ Free(u)
    /\ hazop.made.studies < MaxNew
    /\ ops' = ops + 1
    /\ LET st == NewStudyIds[hazop.made.studies + 1]
       IN  hazop' = [hazop EXCEPT
                        !.studies = @ @@ (st :> [organization_id |-> u]),
                        !.made.studies = @ + 1,
                        !.calls[u] = [NoCall EXCEPT !.op = "create_study",
                                         !.pc = "refresh", !.obj = st]]
    /\ UNCHANGED <<deviations, rows>>
    /\ UNCHANGED Others

\* studies.py lines 171-181
create_node(u, st, name) ==
    Lookup(u, "create_node", st, st \in DOMAIN hazop.studies, name, "", FALSE)

\* studies.py lines 183-191: the INSERT of the node; hazop_nodes.study_id
\* references hazop_studies.id, so the INSERT of a node whose study is gone
\* raises IntegrityError, which nothing catches.
CommitCreateNode(u) ==
    /\ Call(u).op = "create_node" /\ Call(u).pc = "commit"
    /\ Call(u).id \in DOMAIN hazop.studies => hazop.made.nodes < MaxNew
    /\ LET c == Call(u)
           n == NewNodeIds[hazop.made.nodes + 1]
       IN  hazop' =
             IF c.id \in DOMAIN hazop.studies
             THEN [hazop EXCEPT
                      !.nodes = @ @@ (n :> [study_id |-> c.id, node_name |-> c.name]),
                      !.made.nodes = @ + 1,
                      !.calls[u].pc = "refresh", !.calls[u].obj = n]
             ELSE Respond(hazop, u, 500, {})
    /\ UNCHANGED <<deviations, rows, ops>>
    /\ UNCHANGED Others

\* studies.py lines 261-271
create_deviation(u, n) ==
    Lookup(u, "create_deviation", n, n \in DOMAIN hazop.nodes, "", "", FALSE)

\* studies.py lines 273-280: the INSERT of the deviation; deviations.node_id
\* references hazop_nodes.id.
CommitCreateDeviation(u) ==
    /\ Call(u).op = "create_deviation" /\ Call(u).pc = "commit"
    /\ Call(u).id \in DOMAIN hazop.nodes => hazop.made.deviations < MaxNew
    /\ LET c == Call(u)
           d == NewDeviationIds[hazop.made.deviations + 1]
       IN  IF c.id \in DOMAIN hazop.nodes
           THEN /\ hazop' = [hazop EXCEPT
                                !.node_id = @ @@ (d :> c.id),
                                !.made.deviations = @ + 1,
                                !.calls[u].pc = "refresh", !.calls[u].obj = d]
                /\ deviations' = deviations \cup {d}
           ELSE /\ hazop' = Respond(hazop, u, 500, {})
                /\ deviations' = deviations
    /\ UNCHANGED <<rows, ops>>
    /\ UNCHANGED Others

\* studies.py lines 294-303: the study is looked up by id alone.
delete_study(u, st) ==
    Lookup(u, "delete_study", st, st \in DOMAIN hazop.studies, "", "", FALSE)

\* studies.py lines 331-340
delete_node(u, n) ==
    Lookup(u, "delete_node", n, n \in DOMAIN hazop.nodes, "", "", FALSE)

\* studies.py lines 346-355
delete_deviation(u, d) ==
    Lookup(u, "delete_deviation", d, d \in deviations, "", "", FALSE)

\* studies.py lines 305-307, 342-344 and 357-359: db.delete and db.commit.
\* The rows under the row deleted go with it (cascade="all, delete-orphan"
\* and ON DELETE CASCADE); a DELETE that matches no row, because another
\* request deleted the row since the lookup, is a warning of the ORM and the
\* commit succeeds.  The INSERT of a node holds a lock on the row of its
\* study until its transaction ends, so the DELETE of a study waits for the
\* commit of a duplicate_node that has flushed a node under it, and then
\* takes that node along.
CommitDelete(u) ==
    /\ Call(u).op \in {"delete_study", "delete_node", "delete_deviation"}
    /\ Call(u).pc = "commit"
    /\ Call(u).op = "delete_study" =>
          \A v \in Orgs \ {u} :
              ~(Call(v).pc \in {"copy", "commit"} /\ Call(v).op = "duplicate_node"
                  /\ Call(v).loaded = Call(u).id)
    /\ LET c == Call(u)
           sts == IF c.op = "delete_study" THEN {c.id} ELSE {}
           ns == IF c.op = "delete_node" THEN {c.id} ELSE NodesOf(sts)
           ds == IF c.op = "delete_deviation" THEN {c.id} \cap deviations
                 ELSE DeviationsOf(ns)
       IN  /\ hazop' = Respond([hazop EXCEPT !.studies = Drop(@, sts),
                                             !.nodes = Drop(@, ns),
                                             !.node_id = Drop(@, ds)],
                               u, 200, {})
           /\ Cascade(ds)
    /\ UNCHANGED ops
    /\ UNCHANGED Others

\* studies.py lines 309-319: the node is looked up by id alone.
update_node(u, n, name) ==
    Lookup(u, "update_node", n, n \in DOMAIN hazop.nodes, name,
           IF n \in DOMAIN hazop.nodes THEN hazop.nodes[n].node_name ELSE "",
           FALSE)

\* An update_node that drops the cache rows of the deviations of the node.
CommitUpdateNodeInvalidating(u) ==
    /\ Call(u).op = "update_node" /\ Call(u).pc = "commit"
    /\ Call(u).id \in DOMAIN hazop.nodes
    /\ hazop' = [hazop EXCEPT !.nodes[Call(u).id].node_name = Call(u).name,
                              !.calls[u].pc = "refresh", !.calls[u].obj = Call(u).id]
    /\ rows' = {r \in rows : r.deviation_id \notin DeviationsOf({Call(u).id})}
    /\ UNCHANGED <<deviations, ops>>
    /\ UNCHANGED Others

\* studies.py lines 321-327: the number and name of the request are set on
\* the node and db.commit flushes them.  The UPDATE carries the attributes
\* whose value differs from the one loaded, and none is sent when none
\* differs; an UPDATE that matches no row, because another request deleted
\* the node since the lookup, raises StaleDataError, which nothing catches.
CommitUpdateNode(u) ==
    /\ Call(u).op = "update_node" /\ Call(u).pc = "commit"
    /\ LET c == Call(u)
       IN  hazop' =
             IF c.name = c.loaded
             THEN [hazop EXCEPT !.calls[u].pc = "refresh", !.calls[u].obj = c.id]
             ELSE IF c.id \in DOMAIN hazop.nodes
             THEN [hazop EXCEPT !.nodes[c.id].node_name = c.name,
                                !.calls[u].pc = "refresh", !.calls[u].obj = c.id]
             ELSE Respond(hazop, u, 500, {})
    /\ UNCHANGED <<deviations, rows, ops>>
    /\ UNCHANGED Others

\* studies.py lines 371-382
duplicate_node(u, n, name, include_deviations) ==
    Lookup(u, "duplicate_node", n, n \in DOMAIN hazop.nodes, name,
           IF n \in DOMAIN hazop.nodes THEN hazop.nodes[n].study_id ELSE "",
           include_deviations)

\* studies.py lines 384-394: the new node is flushed: its INSERT, under the
\* study of the source node as it was loaded, is sent and not yet committed.
\* hazop_nodes.study_id references hazop_studies.id, so the INSERT raises
\* IntegrityError, which nothing catches, when the study is gone.
FlushDuplicateNode(u) ==
    /\ Call(u).op = "duplicate_node" /\ Call(u).pc = "flush"
    /\ Call(u).loaded \in DOMAIN hazop.studies => hazop.made.nodes < MaxNew
    /\ hazop' =
         IF Call(u).loaded \in DOMAIN hazop.studies
         THEN [hazop EXCEPT
                  !.made.nodes = @ + 1,
                  !.calls[u].obj = NewNodeIds[hazop.made.nodes + 1],
                  !.calls[u].pc = IF Call(u).incl THEN "copy" ELSE "commit"]
         ELSE Respond(hazop, u, 500, {})
    /\ UNCHANGED <<deviations, rows, ops>>
    /\ UNCHANGED Others

\* studies.py lines 397-410: the query for the deviations that the source
\* node has now, and the flush of a copy of each under the new node; the
\* copies are not yet committed.
CopyDeviations(u) ==
    /\ Call(u).op = "duplicate_node" /\ Call(u).pc = "copy"
    /\ LET k == Cardinality(DeviationsOf({Call(u).id}))
       IN  /\ hazop.made.deviations + k <= MaxNew
           /\ hazop' = [hazop EXCEPT
                           !.made.deviations = @ + k,
                           !.calls[u].copies =
                               {NewDeviationIds[hazop.made.deviations + i] : i \in 1..k},
                           !.calls[u].pc = "commit"]
    /\ UNCHANGED <<deviations, rows, ops>>
    /\ UNCHANGED Others

\* studies.py line 473: db.commit makes the new node and the copies flushed
\* under it visible to the other requests, whatever became of the source
\* node and of its deviations since they were read.
CommitDuplicateNode(u) ==
    /\ Call(u).op = "duplicate_node" /\ Call(u).pc = "commit"
    /\ LET c == Call(u)
       IN  /\ hazop' = [hazop EXCEPT
                           !.nodes = @ @@ (c.obj :> [study_id |-> c.loaded,
                                                     node_name |-> c.name]),
                           !.node_id = @ @@ [d \in c.copies |-> c.obj],
                           !.calls[u].pc = "refresh"]
           /\ deviations' = deviations \cup c.copies
    /\ UNCHANGED <<rows, ops>>
    /\ UNCHANGED Others

\* studies.py lines 85-86, 192-193, 281-282, 328-329 and 474-475: db.refresh
\* reads the row again and the handler returns it; db.refresh of a row that
\* another request deleted since the commit raises InvalidRequestError, which
\* nothing catches.
Refresh(u) ==
    /\ Call(u).pc = "refresh"
    /\ hazop' = IF Call(u).obj \in DOMAIN hazop.studies \cup DOMAIN hazop.nodes
                                   \cup deviations
                THEN Respond(hazop, u, 200, {Call(u).obj})
                ELSE Respond(hazop, u, 500, {})
    /\ UNCHANGED <<deviations, rows, ops>>
    /\ UNCHANGED Others

\* ------------------------------------------- the background cleanup task
\* asyncio.sleep(24 * 60 * 60) and asyncio.sleep(60 * 60), in hours
SweepInterval == 24
SweepBackoff == 1

\* A cleanup task that ends when an attempt raises.
task_on_exception_exit == "exit"

\* What `except Exception` of _cleanup_task does: sleep an hour and loop.
task_on_exception == "backoff"

\* startup_event: schedule_cache_cleanup creates the task, or raises, which
\* startup_event logs; the application starts either way.
Startup(fail) ==
    /\ sched.app = "starting"
    /\ sched' = [sched EXCEPT !.app = "running",
                               !.task = IF fail THEN "none" ELSE "session"]
    /\ UNCHANGED <<now, deviations, rows, nextId, sess, sweepRet, ops, lastPut, lastTry, stats, hazop>>

\* The task after an exception reached the try block of its loop.
TaskRaise(sc, why) ==
    IF task_on_exception = "backoff"
    THEN [sc EXCEPT !.task = "sleep", !.delay = SweepBackoff, !.last = why]
    ELSE [sc EXCEPT !.task = "ended", !.last = why]

\* `db = next(db_factory())`: a session, or an exception.
TaskSession(fail) ==
    /\ sched.task = "session"
    /\ sched' = IF fail THEN TaskRaise(sched, "session_error")
                 ELSE [sched EXCEPT !.task = "cleanup"]
    /\ UNCHANGED <<now, deviations, rows, nextId, sess, sweepRet, ops, lastPut, lastTry, stats, hazop>>

\* `await cleanup_expired_cache(db)` and the sleep that follows: the sweep
\* runs, or fails inside cleanup_expired, which returns 0; either way
\* cleanup_expired_cache returns and the task sleeps 24 hours.
TaskCleanup(fail) ==
    /\ sched.task = "cleanup"
    /\ IF fail THEN DeleteFailed ELSE DeleteExpired
    /\ sched' = [sched EXCEPT !.task = "sleep", !.delay = SweepInterval,
                               !.last = IF fail THEN "sweep_error" ELSE "ok"]
    /\ UNCHANGED <<now, deviations, nextId, sess, ops, lastPut, lastTry, stats, hazop>>

\* The sleep is over: the loop starts its next attempt.
TaskWake ==
    /\ sched.task = "sleep"
    /\ sched' = [sched EXCEPT !.task = "session", !.delay = 0]
    /\ UNCHANGED <<now, deviations, rows, nextId, sess, sweepRet, ops, lastPut, lastTry, stats, hazop>>

TaskSteps ==
    \/ (\E fail \in BOOLEAN : TaskSession(fail))
    \/ (\E fail \in BOOLEAN : TaskCleanup(fail))
    \/ TaskWake

\* ------------------------------------------------------- specifications
Quiet == \A s \in Sessions : sess[s].pc \in {"idle", "done"}

\* The cache service called directly, one call at a time.
Next ==
    \/ (ops < MaxOps /\ \E tr \in Triples : StartGet(1, tr[1], tr[2], tr[3]))
    \/ (ops < MaxOps /\ \E tr \in Triples, v \in Payloads :
            StartPut(1, tr[1], tr[2], tr[3], v))
    \/ GetQuery(1)
    \/ GetCommit(1)
    \/ GetLoad(1)
    \/ PutQuery(1)
    \/ PutCommit(1)
    \/ (ops < MaxOps /\ Quiet /\ cleanup_expired)
    \/ (Quiet /\ ops > 0 /\ Advance(1))

Spec == Init /\ [][Next]_vars

\* The cache service called directly, one call at a time, with triples that
\* differ in the deviation, in the suggestion type, or in the context.
NextKeys ==
    \/ (ops < MaxOps /\ \E tr \in KeyTriples : StartGet(1, tr[1], tr[2], tr[3]))
    \/ (ops < MaxOps /\ \E tr \in KeyTriples, v \in Payloads :
            StartPut(1, tr[1], tr[2], tr[3], v))
    \/ GetQuery(1)
    \/ GetCommit(1)
    \/ GetLoad(1)
    \/ PutQuery(1)
    \/ PutCommit(1)

SpecKeys == Init /\ [][NextKeys]_vars

\* The suggest_* requests, one at a time, with caching enabled.
Requests ==
    { <<"causes", "d1", CtxGas, PyNone, PyNone>>,
      <<"consequences", "d1", CtxGas, Str("wear"), PyNone>>,
      <<"safeguards", "d1", PyNone, Str("wear"), Str("fire")>> }

SuggestSteps ==
    \/ (ops < MaxOps /\ \E rq \in Requests :
            StartSuggest(1, rq[1], rq[2], rq[3], rq[4], rq[5], TRUE))
    \/ GetQuery(1)
    \/ GetCommit(1)
    \/ GetLoad(1)
    \/ Reload(1)
    \/ (\E api \in ApiOutcomes : Upstream(1, api))
    \/ PutQuery(1)
    \/ PutCommit(1)

\* Between requests the clock jumps to just before, to, or just past the expiry
\* of what was stored at the time it jumps from.
ClockSteps == {cache_ttl - 1, cache_ttl, cache_ttl + 1}

NextSuggest ==
    \/ SuggestSteps
    \/ (ops < MaxOps /\ Quiet /\ cleanup_expired)
    \/ (Quiet /\ ops > 0 /\ \E days \in ClockSteps : Advance(days))

SpecSuggest == Init /\ [][NextSuggest]_vars

\* The four suggest operations for the stored deviation d1, with and without
\* an API key, with and without a cache service.
NextAnalysis ==
    \/ (ops < MaxOps /\ \E rq \in Requests, cs \in BOOLEAN :
            StartSuggest(1, rq[1], rq[2], rq[3], rq[4], rq[5], cs))
    \/ (ops < MaxOps /\ \E kind \in {"causes", "consequences", "safeguards",
                                      "complete_analysis"} :
            SuggestWithoutKey(1, kind))
    \/ (ops < MaxOps /\ \E context \in {PyNone, CtxGas}, cs \in BOOLEAN :
            StartCompleteAnalysis(1, "d1", context, cs))
    \/ GetQuery(1)
    \/ GetCommit(1)
    \/ GetLoad(1)
    \/ Reload(1)
    \/ (\E api \in ApiOutcomes : Upstream(1, api))
    \/ PutQuery(1)
    \/ PutCommit(1)
    \/ (Quiet /\ ops > 0 /\ \E days \in ClockSteps : Advance(days))

SpecAnalysis == Init /\ [][NextAnalysis]_vars

\* Requests to the suggest-causes endpoint whose bodies have no context, a
\* context with no field set, and a context with one field set.
ContextBodies == {PyNone, Dict(<<>>), CtxGas}

NextEndpoint ==
    \/ (ops < MaxOps /\ \E body \in ContextBodies : PostSuggestCauses(1, "d1", body))
    \/ GetQuery(1)
    \/ GetCommit(1)
    \/ GetLoad(1)
    \/ Reload(1)
    \/ (\E api \in ApiOutcomes : Upstream(1, api))
    \/ PutQuery(1)
    \/ PutCommit(1)
    \/ (ops < MaxOps /\ Quiet /\ cleanup_expired)
    \/ (Quiet /\ ops > 0 /\ \E days \in ClockSteps : Advance(days))

SpecEndpoint == Init /\ [][NextEndpoint]_vars

\* The studies API called by a user of organisation o1 on the study s1, the
\* rows under it and the first row inserted into each table, between the
\* steps of suggest-causes requests and of direct calls of the cache.
HazopApi == {ApiError, ApiText(json_dumps(V1, FALSE)), ApiText(json_dumps(Names, FALSE))}
HazopUsers == {"o1"}
HazopStudies == {"s1", NewStudyIds[1]}
HazopNodes == {"n1", NewNodeIds[1]}
HazopDeviations == {"d1", NewDeviationIds[1]}

NextHazop ==
    \/ (ops < MaxOps /\ PostSuggestCauses(1, "d1", CtxGas))
    \/ (ops < MaxOps /\ \E d \in {"d1", "n1"} : StartPut(1, d, CtxGas, "causes", V2))
    \/ GetQuery(1)
    \/ GetCommit(1)
    \/ GetLoad(1)
    \/ Reload(1)
    \/ (\E api \in HazopApi : Upstream(1, api))
    \/ PutQuery(1)
    \/ PutCommit(1)
    \/ (ops < MaxOps /\ \E u \in HazopUsers, st \in HazopStudies : get_study(u, st))
    \/ (ops < MaxOps /\ \E u \in HazopUsers, n \in HazopNodes : list_deviations(u, n))
    \/ (ops < MaxOps /\ \E u \in HazopUsers : create_study(u))
    \/ (ops < MaxOps /\ \E u \in HazopUsers, st \in HazopStudies : create_node(u, st, "P-101"))
    \/ (ops < MaxOps /\ \E u \in HazopUsers, n \in HazopNodes : create_deviation(u, n))
    \/ (ops < MaxOps /\ \E u \in HazopUsers, st \in HazopStudies : delete_study(u, st))
    \/ (ops < MaxOps /\ \E u \in HazopUsers, n \in HazopNodes, name \in NodeNames :
            update_node(u, n, name))
    \/ (ops < MaxOps /\ \E u \in HazopUsers, n \in HazopNodes : delete_node(u, n))
    \/ (ops < MaxOps /\ \E u \in HazopUsers, d \in HazopDeviations : delete_deviation(u, d))
    \/ (ops < MaxOps /\ \E u \in HazopUsers, n \in HazopNodes, incl \in BOOLEAN :
            duplicate_node(u, n, "P-102", incl))
    \/ (\E u \in HazopUsers : CommitCreateNode(u))
    \/ (\E u \in HazopUsers : CommitCreateDeviation(u))
    \/ (\E u \in HazopUsers : CommitDelete(u))
    \/ (\E u \in HazopUsers : CommitUpdateNode(u))
    \/ (\E u \in HazopUsers : FlushDuplicateNode(u))
    \/ (\E u \in HazopUsers : CopyDeviations(u))
    \/ (\E u \in HazopUsers : CommitDuplicateNode(u))
    \/ (\E u \in HazopUsers : Refresh(u))
    \/ (Quiet /\ ops > 0 /\ \E days \in ClockSteps : Advance(days))

SpecHazop == Init /\ [][NextHazop]_vars

\* The studies API called by the users of both organisations at once, on the
\* rows stored at the start and the first row inserted into each table.
AllStudies == StudyIds \cup {NewStudyIds[1]}
AllNodes == NodeIds \cup {NewNodeIds[1]}
AllDeviations == Deviations \cup {NewDeviationIds[1]}

NextStudies ==
    \/ (ops < MaxOps /\ \E u \in Orgs, st \in AllStudies : get_study(u, st))
    \/ (ops < MaxOps /\ \E u \in Orgs, n \in AllNodes : list_deviations(u, n))
    \/ (ops < MaxOps /\ \E u \in Orgs : create_study(u))
    \/ (ops < MaxOps /\ \E u \in Orgs, st \in AllStudies : create_node(u, st, "P-101"))
    \/ (ops < MaxOps /\ \E u \in Orgs, n \in AllNodes : create_deviation(u, n))
    \/ (ops < MaxOps /\ \E u \in Orgs, st \in AllStudies : delete_study(u, st))
    \/ (ops < MaxOps /\ \E u \in Orgs, n \in AllNodes, name \in NodeNames :
            update_node(u, n, name))
    \/ (ops < MaxOps /\ \E u \in Orgs, n \in AllNodes : delete_node(u, n))
    \/ (ops < MaxOps /\ \E u \in Orgs, d \in AllDeviations : delete_deviation(u, d))
    \/ (ops < MaxOps /\ \E u \in Orgs, n \in AllNodes, incl \in BOOLEAN :
            duplicate_node(u, n, "P-102", incl))
    \/ (\E u \in Orgs : CommitCreateNode(u))
    \/ (\E u \in Orgs : CommitCreateDeviation(u))
    \/ (\E u \in Orgs : CommitDelete(u))
    \/ (\E u \in Orgs : CommitUpdateNode(u))
    \/ (\E u \in Orgs : FlushDuplicateNode(u))
    \/ (\E u \in Orgs : CopyDeviations(u))
    \/ (\E u \in Orgs : CommitDuplicateNode(u))
    \/ (\E u \in Orgs : Refresh(u))

SpecStudies == Init /\ [][NextStudies]_vars

\* The same requests when the storage may fail at any step of the cache.
NextFault ==
    \/ SuggestSteps
    \/ GetFail(1)
    \/ PutFail(1)

SpecFault == Init /\ [][NextFault]_vars

\* Calls from separate sessions for one key, interleaved step by step with
\* one another, with the sweep and with the clock.
ConcTriple == <<"d1", CtxGasPump, "causes">>

NextConc ==
    \/ (ops < MaxConcOps /\ \E s \in Sessions :
            StartGet(s, ConcTriple[1], ConcTriple[2], ConcTriple[3]))
    \/ (ops < MaxConcOps /\ \E s \in Sessions, v \in Payloads :
            StartPut(s, ConcTriple[1], ConcTriple[2], ConcTriple[3], v))
    \/ (\E s \in Sessions : GetQuery(s))
    \/ (\E s \in Sessions : GetCommit(s))
    \/ (\E s \in Sessions : GetLoad(s))
    \/ (\E s \in Sessions : PutQuery(s))
    \/ (\E s \in Sessions : PutCommit(s))
    \/ (ops < MaxConcOps /\ cleanup_expired)
    \/ Advance(cache_ttl + 1)

SpecConc == Init /\ [][NextConc]_vars

\* The application starts and its cleanup task runs beside direct calls of
\* the cache and the clock.
NextSched ==
    \/ (\E fail \in BOOLEAN : Startup(fail))
    \/ TaskSteps
    \/ (sched.app = "running" /\ ops < MaxOps /\ \E tr \in Triples :
            StartGet(1, tr[1], tr[2], tr[3]))
    \/ (sched.app = "running" /\ ops < MaxOps /\ \E v \in Payloads :
            StartPut(1, ConcTriple[1], ConcTriple[2], ConcTriple[3], v))
    \/ GetQuery(1)
    \/ GetCommit(1)
    \/ GetLoad(1)
    \/ PutQuery(1)
    \/ PutCommit(1)
    \/ (sched.app = "running" /\ Advance(cache_ttl + 1))

SpecSched == Init /\ [][NextSched]_vars

\* The event loop keeps running the task: a step it can take, it takes.
SpecSchedFair == SpecSched /\ WF_vars(TaskSteps)

\* Direct calls of the cache and the sweep, with calls of get_stats whose
\* queries interleave with them.
StatsTriples ==
    { <<"d1", CtxGasPump, "causes">>, <<"d1", CtxGasPump, "consequences">> }

NextStats ==
    \/ (ops < MaxOps /\ \E tr \in StatsTriples : StartGet(1, tr[1], tr[2], tr[3]))
    \/ (ops < MaxOps /\ \E tr \in StatsTriples, v \in Payloads :
            StartPut(1, tr[1], tr[2], tr[3], v))
    \/ GetQuery(1)
    \/ GetCommit(1)
    \/ GetLoad(1)
    \/ PutQuery(1)
    \/ PutCommit(1)
    \/ (ops < MaxOps + 1 /\ get_stats)
    \/ (ops < MaxOps + 1 /\ \E role \in OrgRoles : get_cache_stats(role))
    \/ (\E fail \in BOOLEAN : StatsStep(fail))
    \/ (ops < MaxOps /\ Quiet /\ cleanup_expired)
    \/ (Quiet /\ ops > 0 /\ \E days \in ClockSteps : Advance(days))

SpecStats == Init /\ [][NextStats]_vars

\* Requests from separate sessions racing with one another, with the sweep
\* and with the clock.
RaceRequests ==
    { <<"causes", "d1", CtxGas, PyNone, PyNone>>,
      <<"consequences", "d1", CtxGas, Str("wear"), PyNone>> }

\* The upstream call fails, or answers each kind of request with its own text.
RaceOutcomes(kind) ==
    { ApiError,
      IF kind = "causes" THEN ApiText(json_dumps(V1, FALSE))
      ELSE ApiText(Fence(json_dumps(V2, FALSE))) }

NextRace ==
    \/ (ops < MaxRaceOps /\ \E s \in Sessions, rq \in RaceRequests :
            StartSuggest(s, rq[1], rq[2], rq[3], rq[4], rq[5], TRUE))
    \/ (\E s \in Sessions : GetQuery(s))
    \/ (\E s \in Sessions : GetCommit(s))
    \/ (\E s \in Sessions : GetLoad(s))
    \/ (\E s \in Sessions : Reload(s))
    \/ (\E s \in Sessions : \E api \in RaceOutcomes(sess[s].t) : Upstream(s, api))
    \/ (\E s \in Sessions : PutQuery(s))
    \/ (\E s \in Sessions : PutCommit(s))
    \/ (ops < MaxRaceOps /\ cleanup_expired)
    \/ Advance(cache_ttl + 1)

SpecRace == Init /\ [][NextRace]_vars

\* ------------------------------------------------------------ properties
GetDone(s) == sess[s].op = "get" /\ sess[s].pc = "done"
LastPutOf(s) == {h \in lastPut : h.triple = TripleOf(sess[s].d, sess[s].c, sess[s].t)}
StoredRow(s) ==
    First({r \in rows : r.cache_key = generate_cache_key(sess[s].d, sess[s].c, sess[s].t)})

\* C1: a get made less than cache_ttl after the last successful put for its
\* triple returns the payload of that put, and a get made cache_ttl or more
\* after it returns nothing.
C1_PutThenGetUntilTtl ==
    \A s \in Sessions : GetDone(s) =>
        \A h \in LastPutOf(s) :
            /\ sess[s].tq < h.at + cache_ttl => sess[s].ret = h.v
            /\ sess[s].tq >= h.at + cache_ttl => sess[s].ret = PyNone

\* A get at exactly put time + cache_ttl returned nothing although the row,
\* which an earlier get had hit, is still stored.
C1_Witness ==
    \E s \in Sessions : GetDone(s) /\ sess[s].ret = PyNone /\
        \E h \in LastPutOf(s) :
            /\ sess[s].tq = h.at + cache_ttl
            /\ StoredRow(s) # NoRow
            /\ StoredRow(s).access_count = 2
            /\ StoredRow(s).last_accessed > h.at

\* C3: a get returns a payload only if a cache_response stored that payload
\* under the same deviation id, the same suggestion type and a context with
\* the same key/value pairs.
C3_GetOnlyWhatWasStored ==
    \A s \in Sessions : GetDone(s) /\ sess[s].ret # PyNone =>
        \E h \in lastPut :
            /\ h.triple = TripleOf(sess[s].d, sess[s].c, sess[s].t)
            /\ h.v = sess[s].ret

\* A get for one triple returned nothing while entries stored under two other
\* triples are in the table.
C3_Witness ==
    \E s \in Sessions : GetDone(s) /\ sess[s].ret = PyNone /\
        /\ LastPutOf(s) = {}
        /\ Cardinality(rows) = 2
        /\ \A r \in rows : r.deviation_id = sess[s].d

SuggestionTypes == {"causes", "consequences", "safeguards", "complete_analysis"}

\* C4: for every deviation id and suggestion type the same context pairs in
\* two insertion orders give one cache key (a fact about the key function,
\* evaluated once, before any call), and a get is answered from the entry
\* that a put stored with the pairs in the other order.
C4_OrderIndependentKey ==
    /\ ops = 0 =>
           \A d \in Deviations, t \in SuggestionTypes :
               generate_cache_key(d, CtxGasPump, t) = generate_cache_key(d, CtxPumpGas, t)
    /\ \A s \in Sessions : GetDone(s) =>
           \A h \in lastPut :
               ( /\ h.triple = TripleOf(sess[s].d, sess[s].c, sess[s].t)
                 /\ h.c # sess[s].c
                 /\ sess[s].tq < h.at + cache_ttl )
               => sess[s].ret = h.v

\* A get with fluid_type first hit the entry put with process_description first.
C4_Witness ==
    \E s \in Sessions : GetDone(s) /\
        \E h \in LastPutOf(s) :
            h.c = CtxPumpGas /\ sess[s].c = CtxGasPump /\ sess[s].ret = h.v

\* C5: cleanup_expired leaves exactly the rows a get at that time would
\* still return, and returns the number of rows it removed.
C5_SweepRemovesWhatGetTreatsAsExpired ==
    [][cleanup_expired =>
         /\ rows' = {r \in rows : LiveFilter(r, r.cache_key, now)}
         /\ sweepRet' = Cardinality(rows \ rows')]_vars

\* C8: a get that hits adds exactly one to access_count of the row it hit and
\* sets its last_accessed to the time of the hit.
C8_HitAddsOne ==
    [][\A s \in Sessions :
         (sess[s].pc = "get_commit" /\ sess'[s].pc = "get_load") =>
            LET before == First({r \in rows : r.id = sess[s].obj.id})
                after == First({r \in rows' : r.id = sess[s].obj.id})
            IN  /\ after.access_count = before.access_count + 1
                /\ after.last_accessed = sess[s].tq]_vars

\* Two hits in a row after the put: the count went from 1 to 3.
C8_Witness ==
    \E s \in Sessions : GetDone(s) /\ sess[s].ret # PyNone /\
        /\ StoredRow(s).access_count = 3
        /\ StoredRow(s).created_at < StoredRow(s).last_accessed
        /\ StoredRow(s).last_accessed = sess[s].tq

SuggestAt(s, pc) == sess[s].op = "suggest" /\ sess[s].pc = pc

\* C2: with caching enabled, a suggest_* request that missed and got a
\* non-empty upstream result leaves that result stored for its (deviation,
\* context, type); a request whose lookup is made less than cache_ttl after
\* the entry was filled makes no upstream call; and a request that made no
\* upstream call returns that entry's suggestions, marked as cached.
C2_NoUpstreamCallWithinTtl ==
    \A s \in Sessions :
        /\ SuggestAt(s, "upstream") /\ sess[s].cs =>
              \A h \in LastPutOf(s) : sess[s].tq >= h.at + cache_ttl
        /\ ( /\ SuggestAt(s, "done") /\ sess[s].cs /\ sess[s].up # NoApi
              /\ Truthy(sess[s].result) ) =>
              \E h \in LastPutOf(s) :
                  h.v = sess[s].result /\ h.at = sess[s].tp
        /\ SuggestAt(s, "done") /\ sess[s].cs /\ sess[s].up = NoApi =>
              \E h \in LastPutOf(s) :
                  /\ sess[s].tq < h.at + cache_ttl
                  /\ ~sess[s].raised
                  /\ sess[s].result = MarkCached(h.v)

\* C6: the table never holds two rows with the same cache key.
C6_OneEntryPerKey ==
    \A r1 \in rows, r2 \in rows : r1.cache_key = r2.cache_key => r1 = r2

\* Two cache_response calls for one key that both found no row: one inserted,
\* the other returned False, and one row is stored.
C6_Witness ==
    /\ \E s1 \in Sessions, s2 \in Sessions :
          /\ sess[s1].op = "put" /\ sess[s1].pc = "done" /\ sess[s1].putret = "True"
          /\ sess[s2].op = "put" /\ sess[s2].pc = "done" /\ sess[s2].putret = "False"
    /\ sweepRet = -1
    /\ Cardinality(rows) = 1
    /\ \A r \in rows : r.access_count = 1

\* The value a suggest_* request returns for an upstream outcome when the
\* cache plays no part.
UpstreamResult(api) ==
    IF api.kind = "error" THEN List(<<>>)
    ELSE parse_suggestions(generate_response(api))

\* C7: a failure inside get_cached_response makes it return nothing and the
\* request go on to the upstream call, a failure inside cache_response makes
\* it return False, and the request then raises nothing and returns what
\* the upstream call gave.
C7_CacheFailureNeverBlocks ==
    \A s \in Sessions : SuggestAt(s, "done") =>
        /\ sess[s].gfail => sess[s].ret = PyNone /\ sess[s].up # NoApi
        /\ sess[s].pfail => sess[s].putret = "False"
        /\ (sess[s].gfail \/ sess[s].pfail) =>
              /\ ~sess[s].raised
              /\ sess[s].result = UpstreamResult(sess[s].up)

\* C9: no step lowers the access_count of a stored row.
C9_AccessCountNeverDecreases ==
    [][\A r \in rows : \A q \in rows' :
         q.id = r.id => q.access_count >= r.access_count]_vars

PutInFlight(triple) ==
    \E s \in Sessions :
        /\ sess[s].op = "put" /\ sess[s].pc \in {"put_query", "put_commit"}
        /\ TripleOf(sess[s].d, sess[s].c, sess[s].t) = triple

\* C10: once the cache_response calls for a key are over, the stored row
\* holds the payload of the call that committed last.
C10_LastWriterWins ==
    \A h \in lastTry : ~PutInFlight(h.triple) =>
        \A r \in rows :
            TripleOf(r.deviation_id, h.c, r.suggestion_type) = h.triple
            => r.response_data = json_dumps(h.v, FALSE)

InGet(pc) == pc \in {"get_query", "get_commit", "get_load"}

C12_ExpiryIsCreationPlusTtl ==
    \A r \in rows : r.expires_at = r.created_at + cache_ttl

PutCommitted(s) ==
    /\ sess[s].op = "put" /\ sess[s].pc = "put_commit"
    /\ sess'[s].pc = "done" /\ sess'[s].putret = "True"

\* C13: a cache_response that finds the row exactly as an identical call at the
\* same time has just inserted it (same payload, created now, never accessed
\* since) leaves the table as it is.
C13_PutTwiceSameAsOnce ==
    [][\A s \in Sessions :
         ( /\ PutCommitted(s)
           /\ sess[s].dirty = "update"
           /\ RowById(sess[s].obj.id).access_count = 1
           /\ RowById(sess[s].obj.id).created_at = sess[s].tp
           /\ RowById(sess[s].obj.id).response_data = json_dumps(sess[s].v, FALSE) )
         => rows' = rows]_vars

\* The row for a key is past expiry at time t.
PastExpiry(r, t) == r.expires_at <= t

\* C14: a cache_response that finds a row past expiry for its key keeps that one
\* row and gives it the new payload and an expiry of put time + cache_ttl,
\* and a later get within that new expiry returns the new payload.
C14_PutOverwritesExpiredInPlace ==
    /\ [][\A s \in Sessions :
            ( /\ sess[s].op = "put" /\ sess[s].pc = "put_commit"
              /\ sess'[s].pc = "done"
              /\ \E r \in rows : r.cache_key = sess[s].obj.cache_key
                                 /\ PastExpiry(r, sess[s].tp) )
            => LET mine == {r \in rows' : r.cache_key = sess[s].obj.cache_key} IN
               /\ sess'[s].putret = "True"
               /\ Cardinality(rows') = Cardinality(rows)
               /\ \E r \in mine :
                     /\ mine = {r}
                     /\ r.id = sess[s].obj.id
                     /\ r.response_data = json_dumps(sess[s].v, FALSE)
                     /\ r.expires_at = sess[s].tp + cache_ttl]_vars
    /\ [](\A s \in Sessions : GetDone(s) =>
            \A h \in LastPutOf(s) :
                ( /\ StoredRow(s) # NoRow
                  /\ PastExpiry([expires_at |-> StoredRow(s).created_at + cache_ttl], h.at)
                  /\ sess[s].tq < h.at + cache_ttl )
                => sess[s].ret = h.v)

\* An entry stored on day 0 was overwritten on day 7 with another payload, and
\* a get on day 8 returned the new payload from that same row.
C14_Witness ==
    \E s \in Sessions : GetDone(s) /\
        \E h \in LastPutOf(s) :
            /\ sess[s].ret = h.v /\ h.v = V2
            /\ StoredRow(s).created_at + cache_ttl = h.at
            /\ sess[s].tq > h.at
            /\ StoredRow(s).access_count = 3
            /\ Cardinality(rows) = 1

\* The step creates a row or replaces the payload or the expiry of one.
WritesEntry ==
    \E q \in rows' : \A r \in rows :
        ~(r.id = q.id /\ r.response_data = q.response_data
                      /\ r.expires_at = q.expires_at)

\* C15: a row is created, or its payload or expiry replaced, only by the
\* commit of a request whose lookup returned nothing and whose upstream call
\* gave text that parsed to a non-empty list, which is what it stores; a
\* request whose upstream call raised, was blocked, or gave unparsable or
\* empty text ends there and leaves the table as it is.
C15_OnlyMissThenUpstreamWrites ==
    [][ /\ WritesEntry =>
              \E s \in Sessions :
                  /\ SuggestAt(s, "put_commit") /\ sess'[s].pc = "done"
                  /\ sess[s].ret = PyNone
                  /\ sess[s].up.kind = "text"
                  /\ Truthy(sess[s].v)
                  /\ sess[s].v = parse_suggestions(generate_response(sess[s].up))
        /\ \A s \in Sessions :
              ( /\ SuggestAt(s, "upstream") /\ sess'[s].up # NoApi
                /\ \/ sess'[s].up.kind = "error"
                   \/ ~Truthy(parse_suggestions(generate_response(sess'[s].up))) )
              => sess'[s].pc = "done" /\ rows' = rows ]_vars

\* A request missed an entry past expiry, got unparsable text from upstream
\* and returned an empty list; the old entry is still as it was stored.
C15_Witness ==
    \E s \in Sessions :
        /\ SuggestAt(s, "done")
        /\ sess[s].up = ApiText(<<TokW("Sorry"), TokP(",")>>)
        /\ sess[s].result = List(<<>>)
        /\ StoredRow(s) # NoRow
        /\ PastExpiry(StoredRow(s), sess[s].tq)
        /\ StoredRow(s).access_count = 1

\* C16: the application is running once startup_event is over, whether or not
\* the task could be scheduled; a task that exists never ends, whatever fails
\* in an attempt; and after every attempt, when the task sleeps, another
\* attempt follows.
C16_SweepTaskNeverStops ==
    /\ [][ /\ sched.app = "starting" => sched'.app = "running"
           /\ sched.app = "running" => sched'.app = "running"
           /\ sched.task \notin {"none", "ended"} =>
                 sched'.task \notin {"none", "ended"} ]_vars
    /\ (sched.task = "sleep" ~> sched.task = "session")
    /\ (sched.task = "session" ~> sched.task = "sleep")

\* After an attempt that could not get a session the task slept, woke, got a
\* session and is about to sweep rows that are past expiry.
C16_Witness ==
    /\ sched.app = "running" /\ sched.task = "cleanup"
    /\ sched.last = "session_error"
    /\ \E r \in rows : ExpiredFilter(r, now)

\* C17: the sleep after an attempt is 24 hours when the attempt succeeded and
\* 1 hour when it failed, whether getting the session failed or the sweep.
C17_BackoffAfterFailedSweep ==
    [][ (sched.task \in {"session", "cleanup"} /\ sched'.task = "sleep") =>
            sched'.delay = IF sched'.last = "ok" THEN SweepInterval
                           ELSE SweepBackoff ]_vars

\* C18: a step of a statistics call, its start, each of its queries and its
\* return of a report or an error report, leaves the table and everything
\* else but the call count as it was.
C18_StatsHasNoSideEffects ==
    [][stats' # stats =>
          UNCHANGED <<now, deviations, rows, nextId, sess, sweepRet,
                      lastPut, lastTry, sched, hazop>>]_vars

\* An error report was returned over a table of two rows, one of them with a
\* hit: the rows are as the calls before left them.
C18_Witness ==
    /\ stats = StatsError
    /\ Cardinality(rows) = 2
    /\ SumAccessCount(rows) = 3
    /\ ops = MaxOps + 1

\* The step in which a get commits its hit; the payload is returned next.
GetHitStep == \E s \in Sessions :
    sess[s].op = "get" /\ sess[s].pc = "get_commit" /\ sess'[s].pc = "get_load"

\* C19: the hit count behind the estimated savings, sum of access_count minus
\* the number of entries and never below zero, counts the gets that returned
\* a cached payload from the stored entries: over any step that keeps the
\* entries it grows by one when the step is such a get and not at all
\* otherwise; and the savings reported are that count times the cost of a call.
C19_SavingsCountGetHits ==
    /\ [][ {r.id : r \in rows'} = {r.id : r \in rows} =>
             cache_hits(SumAccessCount(rows'), Cardinality(rows')) =
                 cache_hits(SumAccessCount(rows), Cardinality(rows)) +
                 (IF GetHitStep THEN 1 ELSE 0) ]_vars
    /\ [](stats.kind = "cache_stats" /\ stats.stats.kind = "stats" =>
             /\ stats.cache_hits =
                   cache_hits(stats.stats.total_hits, stats.stats.total_entries)
             /\ stats.estimated_cost_savings_usd * 100 =
                   stats.cache_hits * estimated_cost_per_call)

\* The shape of what a suggest operation returns: a list, and of a complete
\* analysis a map with the three sections.
WellFormed(kind, result) ==
    IF kind = "complete_analysis"
    THEN /\ result.ty = "dict"
         /\ \A i \in 1..Len(Sections) :
               \E j \in 1..Len(result.items) : result.items[j][1] = Sections[i]
    ELSE result.ty = "list"

\* C20: every suggest operation for the stored deviation that is over has
\* raised nothing and has returned a result of its shape, whatever the upstream
\* did and with or without an API key.
C20_SuggestNeverRaises ==
    \A s \in Sessions :
        SuggestAt(s, "done") =>
            ~sess[s].raised /\ WellFormed(sess[s].t, sess[s].result)

\* C21: a complete-analysis request made with an API key and a cache service
\* that missed is over only after its upstream call, and when that call gave
\* an analysis with a non-empty section an entry of type complete_analysis is
\* stored under the key of the request.
C21_CompleteAnalysisIsCached ==
    \A s \in Sessions :
        (SuggestAt(s, "done") /\ sess[s].t = "complete_analysis" /\ sess[s].cs
            /\ ~Truthy(sess[s].ret)) =>
            /\ sess[s].up # NoApi
            /\ (sess[s].up.kind # "error" /\
                ShouldCacheAnalysis(TRUE,
                    parse_complete_analysis(generate_response(sess[s].up)))) =>
                  \E r \in rows :
                      /\ r.cache_key = generate_cache_key(sess[s].d, sess[s].c,
                                                          "complete_analysis")
                      /\ r.suggestion_type = "complete_analysis"

\* C22: a get_cached_response for a key whose stored row is past expiry
\* returns nothing and leaves no row for that key behind: once the get is
\* over, a row stored for its key is not past expiry as of the get.
C22_ExpiredEvictedOnRead ==
    \A s \in Sessions :
        GetDone(s) =>
            /\ ~(StoredRow(s) # NoRow /\ StoredRow(s).expires_at < sess[s].tq)
            /\ (\E h \in LastPutOf(s) : h.at + cache_ttl < sess[s].tq) =>
                  sess[s].ret = PyNone

\* The pairs of a context that carry a value.
SetFields(cs) == {kv \in cs : kv[2] # PyNone}

\* C23: a request whose context has the same set fields as that of an earlier
\* request for the same deviation and type, written differently (no context
\* against a context of unset fields), is answered within cache_ttl from the
\* entry the earlier request stored, without an upstream call.
C23_UnsetContextSharesEntry ==
    \A s \in Sessions :
        (SuggestAt(s, "done") /\ sess[s].cs) =>
            \A h \in lastPut :
                ( /\ h.triple # TripleOf(sess[s].d, sess[s].c, sess[s].t)
                  /\ h.triple.d = sess[s].d /\ h.triple.t = sess[s].t
                  /\ SetFields(h.triple.cs) = SetFields(CtxSet(sess[s].c))
                  /\ h.at <= sess[s].tq /\ sess[s].tq < h.at + cache_ttl )
                => /\ sess[s].up = NoApi
                   /\ sess[s].result = MarkCached(h.v)

\* What an organisation holds: its studies, the nodes and deviations under
\* them, and the names of those nodes.
OrgStudies(org, h) == {st \in DOMAIN h.studies : h.studies[st].organization_id = org}
OrgNodes(org, h) == {n \in DOMAIN h.nodes : h.nodes[n].study_id \in OrgStudies(org, h)}
OrgDeviations(org, h) == {d \in DOMAIN h.node_id : h.node_id[d] \in OrgNodes(org, h)}

\* The studies of an organisation, the nodes under them as they are stored
\* and the deviations under the nodes.
OrgData(org, h) ==
    [studies |-> OrgStudies(org, h),
     nodes |-> [n \in OrgNodes(org, h) |-> h.nodes[n]],
     deviations |-> OrgDeviations(org, h)]

OrgIds(org, h) == OrgStudies(org, h) \cup OrgNodes(org, h) \cup OrgDeviations(org, h)

\* C24: a step of a request of the studies API made by a user of one
\* organisation leaves the studies, nodes and deviations of every other
\* organisation as they were, and what the request returns carries nothing
\* of them.
C24_OrganisationIsolation ==
    [][\A u \in Orgs :
          hazop'.calls[u] # hazop.calls[u] =>
              \A other \in Orgs \ {u} :
                  /\ OrgData(other, hazop') = OrgData(other, hazop)
                  /\ hazop'.calls[u].shows
                        \cap (OrgIds(other, hazop) \cup OrgIds(other, hazop')) = {}]_vars

\* C25: no call of get_stats is under way for a user whose role is neither
\* owner nor admin, and what the cache-statistics endpoint returned to such a
\* user is the 403 response, which carries no statistic.
C25_StatsForOwnerAndAdminOnly ==
    stats.kind \in {"cache_stats", "http", "running"} =>
        (stats.role \in OrgRoles \ {"owner", "admin"} =>
            /\ stats.kind = "http" /\ stats.status = 403
            /\ DOMAIN stats = {"kind", "role", "status"})

\* A member asked for the statistics of a table with a row in it and got 403.
C25_Witness ==
    /\ stats.kind = "http" /\ stats.role = "member" /\ stats.status = 403
    /\ rows # {}

\* C26: a step of a get_cached_response changes the table only when it commits
\* a hit, and then only access_count and last_accessed of the row it hit; a
\* get that misses changes no row.
C26_HitChangesOnlyAccessStats ==
    [][\A s \in Sessions :
          (sess[s].op = "get" /\ InGet(sess[s].pc) /\ sess'[s] # sess[s]) =>
              \/ rows' = rows
              \/ /\ sess[s].pc = "get_commit" /\ sess'[s].pc = "get_load"
                 /\ \E r \in rows :
                       /\ r.id = sess[s].obj.id
                       /\ rows' = (rows \ {r}) \cup
                             {[r EXCEPT !.access_count = r.access_count + 1,
                                        !.last_accessed = sess[s].tq]}]_vars

\* A get hit one of two stored rows, a day after it was stored.
C26_Witness ==
    \E s \in Sessions :
        /\ GetDone(s) /\ sess[s].ret # PyNone
        /\ Cardinality(rows) = 2
        /\ StoredRow(s).access_count = 2
        /\ StoredRow(s).created_at < StoredRow(s).last_accessed

\* C27: every stored cache row carries the id of a stored deviation, through
\* deletions of deviations, nodes and studies and through cache_response
\* calls under ids that are no deviation's.
C27_EntriesBelongToDeviations ==
    \A r \in rows : r.deviation_id \in deviations

\* An entry was stored for d1, d1 was deleted and its entry went with it, and
\* a cache_response under the node id n1 then returned False and stored nothing.
C27_Witness ==
    /\ "d1" \notin deviations
    /\ \E h \in lastPut : h.triple.d = "d1"
    /\ \E s \in Sessions :
          /\ sess[s].op = "put" /\ sess[s].pc = "done"
          /\ sess[s].d = "n1" /\ sess[s].putret = "False"
    /\ rows = {}

\* C28: a suggest operation without a cache service (caching disabled or no
\* session passed) changes no stored row at any of its steps, and with an API
\* key it is over only after its upstream call.
C28_NoCacheServiceNoCacheAccess ==
    /\ [][\A s \in Sessions :
            (sess'[s].op = "suggest" /\ ~sess'[s].cs /\ sess'[s] # sess[s]) =>
                rows' = rows]_vars
    /\ [](\A s \in Sessions :
            (SuggestAt(s, "done") /\ ~sess[s].cs /\ sess[s].key) =>
                sess[s].up # NoApi /\ sess[s].ret = PyNone)

\* C29: a step of the studies API that deletes no deviation, a step of
\* update_node among them, leaves every cache row as it was, so a suggest request for
\* a stored deviation whose lookup is made less than cache_ttl after the entry
\* for its key was filled makes no upstream call, whatever was written to the
\* node in between, and what it returns is the suggestions of that entry,
\* marked as cached.
C29_NodeUpdateKeepsEntries ==
    /\ [][(hazop' # hazop /\ deviations \subseteq deviations') => rows' = rows]_vars
    /\ [](\A s \in Sessions :
            /\ (SuggestAt(s, "upstream") /\ sess[s].cs /\ sess[s].d \in deviations) =>
                  \A h \in LastPutOf(s) : sess[s].tq >= h.at + cache_ttl
            /\ (SuggestAt(s, "done") /\ sess[s].cs /\ sess[s].up = NoApi
                  /\ ~sess[s].raised) =>
                  \E h \in LastPutOf(s) :
                      /\ sess[s].tq < h.at + cache_ttl
                      /\ sess[s].result = MarkCached(h.v))

\* Suggestions were cached for d1, the node of d1 was renamed, and a request
\* a day short of the expiry got the cached suggestions without an upstream
\* call.
C29_Witness ==
    /\ "n1" \in DOMAIN hazop.nodes
    /\ hazop.nodes["n1"].node_name # InitHazop.nodes["n1"].node_name
    /\ \E u \in Orgs : Call(u).op = "update_node" /\ Call(u).status = 200
    /\ \E s \in Sessions :
          /\ SuggestAt(s, "done") /\ sess[s].d = "d1"
          /\ sess[s].up = NoApi /\ ~sess[s].raised
          /\ \E h \in LastPutOf(s) :
                /\ sess[s].result = MarkCached(h.v)
                /\ sess[s].tq = h.at + cache_ttl - 1

\* C30: get_stats takes as total_entries the number of rows stored when its
\* count query runs and as total_hits the sum of access_count of the rows
\* stored when its access-count query runs, rows past expiry included in
\* both, and the report it returns carries the two figures unchanged (the
\* two queries are separate statements, so each figure is of the table as it
\* is when its own query runs).
C30_StatsCountExpiredEntries ==
    [][(stats.kind = "running" /\ stats' # stats) =>
          LET q == StatsQueries[stats.q]
              report == IF stats'.kind = "cache_stats" THEN stats'.stats ELSE stats'
          IN  /\ (q = "count" /\ stats'.kind = "running") =>
                     stats'.locals.total_entries = Cardinality(rows)
              /\ (q = "hits" /\ stats'.kind = "running") =>
                     stats'.locals.total_hits = SumAccessCount(rows)
              /\ report.kind = "stats" =>
                     /\ report.total_entries = stats.locals.total_entries
                     /\ report.total_hits = stats.locals.total_hits]_vars

\* The report counts a row, hit once, that was stored more than cache_ttl
\* before the report and that no sweep removed.
C30_Witness ==
    /\ stats.kind = "stats"
    /\ stats.total_entries = 1 /\ stats.total_hits = 2
    /\ stats.last_7d_entries = 0
    /\ Cardinality(rows) = 1
    /\ \E r \in rows : r.expires_at < now /\ r.access_count = 2
====
